---- MODULE Spec2Model ----
(***************************************************************************)
(* A model of tinytcp: the packet framing loop (PacketFramingHandler), the *)
(* Socket object, the sockets list with its pool, the default forking      *)
(* strategy, SocketRef and the Server life cycle.                          *)
(*                                                                         *)
(* The specifications of the module:                                       *)
(*   SpecFraming   one connection driven through PacketFramingHandler      *)
(*   SpecSocket    tasks calling Close / Read / Write / OnClose on a Socket*)
(*   SpecList      the sockets list with handler goroutines                *)
(*   SpecRef       the sockets list with handlers that use SocketRefs      *)
(*   Spec          the server: accept loop, handlers, housekeeping, Stop   *)
(*   SpecLifecycle tasks configuring, starting and stopping a Server       *)
(*   SpecStarted   the accept loop of a started Server                     *)
(*   SpecMetrics   metered sockets and the housekeeping tick               *)
(*   SpecAdmission a configured server admitting connections               *)
(*   SpecSizing    the sizes the framing loop holds under its configuration*)
(*   SpecBlocking  StartAndBlock with its services                         *)
(*   SpecProtocol  ExtractPacket of a separator protocol                   *)
(*   SpecPrefixed  ExtractPacket of a length-prefixed protocol             *)
(*   SpecVarint    a number written as VarInt or VarLong and read back     *)
(*   SpecTeardown  the framing loop on a socket that fails or is closed    *)
(*   SpecChain     New, Cleanup and Reset on a list of several sockets     *)
(*   SpecResetting the list with Reset taken statement by statement        *)
(*   SpecCounter   a metered reader and writer against Update              *)
(*   SpecJob       Start and Stop of a housekeeping job and its goroutines *)
(*   SpecDetach    several SocketRefs of one Socket and its recycle        *)
(*   SpecClosing   Close of a Socket whose close handlers use the Socket   *)
(***************************************************************************)
EXTENDS Integers, Sequences, FiniteSets, TLC

\* ---------------------------------------------------------------- bounds
\* longest frame payload of an input stream
MaxPayload == 2
\* most frames in an input stream
MaxFrames == 3
\* tasks that use one Socket concurrently
NumTasks == 2
\* close handlers registered on one Socket
MaxHandlers == 2
\* Socket operations started in one run
MaxOps == 3
\* connections clients open to the server
MaxConns == 2
\* largest MaxClients the server is configured with
MaxClients == 2
\* calls of Start() that get as far as the accept loop
MaxRuns == 2
\* calls tasks make on the Server of server.go
MaxCalls == 3
\* times Accept() returns on a listening socket
MaxAccepts == 2
\* services handed to StartAndBlock
NumServices == 2
\* reads of the framing loop reduced to sizes
MaxReads == 12
\* connections that arrive at a configured server
MaxArrivals == 3
\* bytes that cross the streams of the metered sockets
MaxBytes == 3
\* ticks of the housekeeping job
MaxTicks == 2
\* bytes of a separator
MaxSeparator == 2
\* bytes of a buffer handed to a framing protocol
MaxBuffer == 4
\* bytes at each end of a buffer handed to a length-prefixed protocol
MaxEnd == 2
\* equal bytes in the middle of such a buffer
MaxRun == 9
\* bits from the lowest to the highest that are set, apart from a run of
\* set bits, in a number written as VarInt or VarLong
MaxPattern == 5
\* frames of a stream whose socket fails or is closed
MaxTeardownFrames == 2
\* Socket objects the pool of a sockets list used on its own allocates
MaxNodes == 3
\* calls of New on a sockets list used on its own
MaxNews == 4

\* calls of Read and Write on the metered reader and writer of one socket
MaxTransfers == 2

\* bytes one Read or Write call transfers
MaxChunk == 1

\* housekeeping ticks that update the counters of the socket
MaxUpdates == 1

\* calls of Start() and Stop() on one housekeeping job
MaxJobCalls == 3

\* SocketRefs made for one Socket
MaxRefs == 3

\* operations called through the SocketRefs of one Socket
MaxRefOps == 2

\* ---------------------------------------------------------------- helpers
Min(a, b) == IF a < b THEN a ELSE b

\* s[from..to), 0-based like a Go slice expression s[from:to]
Slice(s, from, to) == SubSeq(s, from + 1, to)

\* n copies of x
Repeat(x, n) == [i \in 1..n |-> x]

RECURSIVE Flatten(_)
Flatten(ss) == IF ss = <<>> THEN <<>> ELSE Head(ss) \o Flatten(Tail(ss))

\* ------------------------------------------------------------------ state
\* The framing loop of one connection.
VARIABLES
    cfg,            \* the merged PacketFramingConfig
    frames,         \* the payloads the peer sent, in order (history)
    stream,         \* bytes the transport has not handed to Read yet
    readBuffer,     \* the fixed-size page Read pumps into
    receiveBuffer,  \* the bytes.Buffer holding a fragment between reads
    receiveHeld,    \* receiveBuffer != nil
    leftOffset,
    rightOffset,
    delivered,      \* packets passed to packetHandler, in order
    path,           \* which branches of the loop have run (history)
    fpc             \* "read": blocked in socket.Read, "done": handler returned

framingVars == <<cfg, frames, stream, readBuffer, receiveBuffer, receiveHeld,
                 leftOffset, rightOffset, delivered, path, fpc>>

\* One Socket used by several tasks: Close, Read, Write, OnClose.
VARIABLES
    sFault,          \* the error the connection fails with, when it fails
    sCloseOnce,      \* closeOnce: "fresh", "running" (Do is executing), "done"
    sCloseHandlers,  \* closeHandlers, in registration order
    sConnCloses,     \* calls of conn.Close() on the underlying connection
    sCloseLog,       \* invocations handler(r) of close handlers, in order
    sTask,           \* each task's operation in progress
    sResult,         \* what the last finished operation returned, until the
                     \* next operation starts
    sHist            \* history: operations started; of the Close that won
                     \* closeOnce: the operation that made it, its argument and
                     \* the handlers registered when it was called

socketVars == <<sFault, sCloseOnce, sCloseHandlers, sConnCloses, sCloseLog, sTask,
                sResult, sHist>>

\* The server: sockets list, pool, handler goroutines, SocketRefs, Server.
VARIABLES
    sock,       \* the Socket objects: conn, closeOnce, recycleHandlers,
                \* recyclable, prev, next (0 is nil)
    conn,       \* each connection: "none" (not accepted yet), "open", "closed"
    pool,       \* Socket objects put back into the sync.Pool
    allocs,     \* Socket objects the pool has allocated
    pooling,    \* the most connections that were open at once, and whether
                \* pool.Get() allocated while an object lay in the pool
                \* (history)
    head,
    tail,
    size,
    maxSize,
    goroutines, \* the counter of goroutinePerConnection
    task,       \* the goroutine OnAccept started for each connection
    ref,        \* the SocketRef each handler made, if it made one
    srv,        \* Server fields and the position of the Start() call
    recycled,   \* connections whose Socket has run recycle() (history)
    last,       \* what the call made in the last step did and returned, for
                \* New, Reset and the operations of a SocketRef (history)
    hist        \* of the current Start() call: the first error Abort was
                \* called with while the server was running, and whether
                \* Abort was called at all before Start() returned (history)

serverVars == <<sock, conn, pool, allocs, pooling, head, tail, size, maxSize,
                goroutines, task, ref,
                srv, recycled, last, hist>>

\* Server of server.go used by several tasks: configuration calls, Start,
\* Stop and the accept loop.
VARIABLES
    lifecycle   \* the Server's fields (listener, forkingStrategy,
                \* acceptErrorHandler, runningMutex: 0 or the task that locked
                \* it, isRunning, ticker), the listening socket (bound), the
                \* size and maxSize of its sockets list, each task's call and
                \* the counts of what the accept loops did (history)

\* Sockets that read and write while the housekeeping job ticks.
VARIABLES
    meter       \* config.TickInterval in seconds, each connection's Socket
                \* (none, run: handler running, recyclable, swept) with the
                \* current counters of its metered reader and writer, the
                \* server's metrics, the position of the tick, the ticks so
                \* far; history: the bytes that crossed the streams, now, when
                \* the last tick began and when the tick before it began

\* A server made from a ServerConfig and the connections it admits.
VARIABLES
    admission   \* the configuration NewServer was given, the merged MaxClients
                \* and TickInterval, the size of the sockets list; history:
                \* the calls of sockets.New and how many it admitted

\* The framing loop reduced to the sizes of its buffers.
VARIABLES
    sizing      \* the PacketFramingConfig given and the merged one (c),
                \* leftOffset, rightOffset, receiveBuffer.Len(); history: the
                \* reads so far, whether input was discarded for size, the
                \* most bytes held at once

\* StartAndBlock with its services.
VARIABLES
    blocking    \* each service's goroutine (new, start, running, failed, sent,
                \* dropped, stopped) and how its Start() failed, the position
                \* of the calling thread, the next service to start, what
                \* StartAndBlock returns, whether a signal arrived

\* A framing protocol applied to one buffer.
VARIABLES
    protocol    \* the separator of the protocol, the buffer, and what
                \* ExtractPacket returned for it (a nil slice is <<>>)

\* A length-prefixed framing protocol applied to one buffer.
VARIABLES
    prefixed    \* the prefix type of a length-prefixed protocol, the buffer,
                \* and what ExtractPacket returned for it or that it panicked

\* A VarInt or VarLong written into a buffer and read back.
VARIABLES
    varint      \* a number (the set of its bits that are 1) written by WriteVarInt
                \* or WriteVarLong into a bytes.Buffer and read back: the buffer,
                \* what the read returned; history: the bytes the write produced

\* A framing loop whose socket fails or is closed.
VARIABLES
    teardown    \* the socket of a framing loop (closed), the error its last
                \* Read returned, and what the loop gave back to its pools

\* A sockets list that holds several sockets.
VARIABLES
    chain       \* a sockets list used on its own: the list and its Socket
                \* objects (w), the calls of New so far; history: the sockets
                \* admitted and not removed since, in admission order, and what
                \* the last call found and did

\* metered counters
VARIABLES
    counter     \* a metered reader and a metered writer of one Socket: their counters,
                \* the housekeeping goroutine inside Update and the handlers inside
                \* Read or Write

\* housekeeping job
VARIABLES
    job         \* a housekeepingJob or backgroundJob: its mutex, running flag and
                \* ticker, the goroutines Start() spawned and the caller of Start()
                \* and Stop()

\* references of one socket
VARIABLES
    detach      \* one Socket and the SocketRefs made for it, with the Socket of
                \* part_009 (one recycle handler) or of sockets_list.go (a list)

\* Close with handlers that use the socket
VARIABLES
    closing     \* one goroutine inside Socket.Close() whose close handlers use the
                \* same Socket

\* the parts that have a specification of their own besides the framing
\* loop, the one Socket and the sockets list
partVars ==
    <<lifecycle, meter, admission, sizing, blocking, protocol, prefixed,
      varint, teardown, chain, counter, job, detach, closing>>

\* what the framing loop leaves alone
notFramingVars == <<socketVars, serverVars, partVars>>
\* what the operations on the one Socket leave alone
notSocketVars == <<framingVars, serverVars, partVars>>
\* what the sockets list and the server leave alone
notServerVars == <<framingVars, socketVars, partVars>>
\* what the calls on the Server of server.go leave alone
notLifecycleVars ==
    <<framingVars, socketVars, serverVars, meter, admission, sizing,
      blocking, protocol, prefixed, varint, teardown, chain, counter, job,
      detach, closing>>
\* what the sockets with their meters and the tick leave alone
notMeterVars ==
    <<framingVars, socketVars, serverVars, lifecycle, admission, sizing,
      blocking, protocol, prefixed, varint, teardown, chain, counter, job,
      detach, closing>>
\* what a configured server admitting connections leaves alone
notAdmissionVars ==
    <<framingVars, socketVars, serverVars, lifecycle, meter, sizing,
      blocking, protocol, prefixed, varint, teardown, chain, counter, job,
      detach, closing>>
\* what the framing loop reduced to sizes leaves alone
notSizingVars ==
    <<framingVars, socketVars, serverVars, lifecycle, meter, admission,
      blocking, protocol, prefixed, varint, teardown, chain, counter, job,
      detach, closing>>
\* what StartAndBlock and its services leave alone
notBlockingVars ==
    <<framingVars, socketVars, serverVars, lifecycle, meter, admission,
      sizing, protocol, prefixed, varint, teardown, chain, counter, job,
      detach, closing>>
\* what a framing protocol applied to a buffer leaves alone
notProtocolVars ==
    <<framingVars, socketVars, serverVars, lifecycle, meter, admission,
      sizing, blocking, prefixed, varint, teardown, chain, counter, job,
      detach, closing>>
\* what a length-prefixed protocol applied to a buffer leaves alone
notPrefixedVars ==
    <<framingVars, socketVars, serverVars, lifecycle, meter, admission,
      sizing, blocking, protocol, varint, teardown, chain, counter, job,
      detach, closing>>
\* what a VarInt written and read back leaves alone
notVarintVars ==
    <<framingVars, socketVars, serverVars, lifecycle, meter, admission,
      sizing, blocking, protocol, prefixed, teardown, chain, counter, job,
      detach, closing>>
\* what the end of a framing loop leaves alone
notTeardownVars ==
    <<framingVars, socketVars, serverVars, lifecycle, meter, admission,
      sizing, blocking, protocol, prefixed, varint, chain, counter, job,
      detach, closing>>
\* what a framing loop and the socket it reads from leave alone
notLoopVars ==
    <<socketVars, serverVars, lifecycle, meter, admission, sizing, blocking,
      protocol, prefixed, varint, chain, counter, job, detach, closing>>
\* what a sockets list used on its own leaves alone
notChainVars ==
    <<framingVars, socketVars, serverVars, lifecycle, meter, admission,
      sizing, blocking, protocol, prefixed, varint, teardown, counter, job,
      detach, closing>>
\* what the metered counters leave alone
notCounterVars ==
    <<framingVars, socketVars, serverVars, lifecycle, meter, admission,
      sizing, blocking, protocol, prefixed, varint, teardown, chain, job,
      detach, closing>>
\* what the housekeeping job leaves alone
notJobVars ==
    <<framingVars, socketVars, serverVars, lifecycle, meter, admission,
      sizing, blocking, protocol, prefixed, varint, teardown, chain, counter,
      detach, closing>>
\* what the references of one socket leave alone
notDetachVars ==
    <<framingVars, socketVars, serverVars, lifecycle, meter, admission,
      sizing, blocking, protocol, prefixed, varint, teardown, chain, counter,
      job, closing>>
\* what the re-entrant Close leaves alone
notClosingVars ==
    <<framingVars, socketVars, serverVars, lifecycle, meter, admission,
      sizing, blocking, protocol, prefixed, varint, teardown, chain, counter,
      job, detach>>

vars == <<framingVars, socketVars, serverVars, partVars>>

\* the separator of SplitBySeparator([]byte{'\n'})
Separator == <<10>>

\* a frame on the wire, as generateTestPayloadWithSeparator builds it
WireFrame(payload) == payload \o Separator

\* a payload of one repeated letter, as generateTestPayload builds it; the
\* i-th frame of a stream is filled with the i-th letter ('A', 'B', ...), so
\* that bytes of different frames differ
Payload(i, n) == Repeat(64 + i, n)

\* the streams: up to MaxFrames frames with payloads of 0..MaxPayload bytes
FrameLists ==
    UNION { { [i \in 1..k |-> Payload(i, lens[i])] : lens \in [1..k -> 0..MaxPayload] }
            : k \in 0..MaxFrames }

\* configurations after mergePacketFramingConfig: one whose size cap is out
\* of reach of the streams, one whose cap a single frame can exceed
FramingConfigs ==
    { [ReadBufferSize |-> 6, MaxPacketSize |-> 64, MinReadSpace |-> 2],
      [ReadBufferSize |-> 6, MaxPacketSize |-> 2,  MinReadSpace |-> 2] }

\* first index (0-based) at which sep occurs in buf, -1 if none: bytes.Index
Index(buf, sep) ==
    LET hits == {i \in 0..(Len(buf) - Len(sep)) : Slice(buf, i, i + Len(sep)) = sep}
    IN  IF hits = {} THEN -1 ELSE CHOOSE i \in hits : \A j \in hits : i <= j

\* a Cut that hands back an unsplit s as the rest, with an empty packet
CutKeepsRest(s, sep) ==
    LET i == Index(s, sep)
    IN  IF i >= 0
        THEN [packet |-> Slice(s, 0, i),
              rest |-> Slice(s, i + Len(sep), Len(s)),
              extracted |-> TRUE]
        ELSE [packet |-> <<>>, rest |-> s, extracted |-> FALSE]

\* bytes.Cut(s, sep): s[:i], s[i+len(sep):], true around the first sep, and
\* s, nil, false without one
Cut(s, sep) ==
    LET i == Index(s, sep)
    IN  IF i >= 0
        THEN [packet |-> Slice(s, 0, i),
              rest |-> Slice(s, i + Len(sep), Len(s)),
              extracted |-> TRUE]
        ELSE [packet |-> s, rest |-> <<>>, extracted |-> FALSE]

\* separatorFramingProtocol.ExtractPacket = bytes.Cut(buffer, separator)
ExtractPacket(buffer) == Cut(buffer, Separator)

\* an inner loop that keeps a fragment in place whenever it fits the read
\* buffer at all, leaving no room for the next Read
RECURSIVE DrainNoReserve(_, _, _, _, _, _, _)
DrainNoReserve(c, source, left, right, out, fromSpill, p) ==
    LET e == ExtractPacket(source)
    IN  IF e.extracted
        THEN LET excessBytes == Len(source) - Len(e.packet) - Len(e.rest)
             IN  DrainNoReserve(c, e.rest,
                                left + Len(e.packet) + excessBytes,
                                right + Len(e.packet) + excessBytes,
                                Append(out, e.packet), fromSpill, p)
        ELSE IF Len(source) = 0
        THEN [left |-> 0, right |-> 0, spill |-> <<>>, spilled |-> FALSE,
              out |-> out, path |-> p]
        ELSE IF right + Len(source) > c.ReadBufferSize
        THEN [left |-> 0, right |-> 0, spill |-> source, spilled |-> TRUE,
              out |-> out, path |-> p \cup {"spill"}]
        ELSE [left |-> left, right |-> right + Len(source), spill |-> <<>>,
              spilled |-> FALSE, out |-> out,
              path |-> p \cup {IF fromSpill THEN "keepAfterSpill" ELSE "keep"}]

\* the inner for-loop of PacketFramingHandler, run until its break
\* fromSpill: source was reassembled in receiveBuffer (history only)
RECURSIVE Drain(_, _, _, _, _, _, _)
Drain(c, source, left, right, out, fromSpill, p) ==
    LET e == ExtractPacket(source)
    IN  IF e.extracted
        THEN LET excessBytes == Len(source) - Len(e.packet) - Len(e.rest)
             IN  Drain(c, e.rest,
                       left + Len(e.packet) + excessBytes,
                       right + Len(e.packet) + excessBytes,
                       Append(out, e.packet), fromSpill, p)
        ELSE IF Len(source) = 0
        THEN [left |-> 0, right |-> 0, spill |-> <<>>, spilled |-> FALSE,
              out |-> out, path |-> p]
        ELSE IF right + Len(source) > c.ReadBufferSize - c.MinReadSpace
        THEN [left |-> 0, right |-> 0, spill |-> source, spilled |-> TRUE,
              out |-> out, path |-> p \cup {"spill"}]
        ELSE [left |-> left, right |-> right + Len(source), spill |-> <<>>,
              spilled |-> FALSE, out |-> out,
              path |-> p \cup {IF fromSpill THEN "keepAfterSpill" ELSE "keep"}]

\* readBuffer after Read stored chunk at readBuffer[rightOffset:]
StoreRead(buf, at, chunk) ==
    [i \in 1..Len(buf) |->
        IF i > at /\ i <= at + Len(chunk) THEN chunk[i - at] ELSE buf[i]]

\* memoryUsed of the size check
MemoryUsed(bytesRead) ==
    rightOffset + bytesRead - leftOffset
        + (IF receiveHeld THEN Len(receiveBuffer) ELSE 0)

FramingInit ==
    /\ cfg \in FramingConfigs
    /\ frames \in FrameLists
    /\ stream = Flatten([i \in 1..Len(frames) |-> WireFrame(frames[i])])
    /\ readBuffer = Repeat(0, cfg.ReadBufferSize)
    /\ receiveBuffer = <<>>
    /\ receiveHeld = FALSE
    /\ leftOffset = 0
    /\ rightOffset = 0
    /\ delivered = <<>>
    /\ path = {}
    /\ fpc = "read"

\* one iteration of the outer loop in which socket.Read returns bytesRead
\* bytes and the size check discards everything buffered
FramingReadTooBig(bytesRead) ==
    /\ UNCHANGED notFramingVars
    /\ fpc = "read"
    /\ bytesRead \in 1..Min(Len(stream), cfg.ReadBufferSize - rightOffset)
    /\ cfg.MaxPacketSize > 0
    /\ MemoryUsed(bytesRead) > cfg.MaxPacketSize
    /\ readBuffer' = StoreRead(readBuffer, rightOffset, Slice(stream, 0, bytesRead))
    /\ stream' = Slice(stream, bytesRead, Len(stream))
    /\ receiveBuffer' = <<>>
    /\ leftOffset' = 0
    /\ rightOffset' = 0
    /\ path' = path \cup {"drop"}
    /\ UNCHANGED <<cfg, frames, receiveHeld, delivered, fpc>>

\* one iteration of the outer loop in which socket.Read returns bytesRead
\* bytes, the size check passes and the inner loop runs to its break
FramingRead(bytesRead) ==
    /\ UNCHANGED notFramingVars
    /\ fpc = "read"
    /\ bytesRead \in 1..Min(Len(stream), cfg.ReadBufferSize - rightOffset)
    /\ ~(cfg.MaxPacketSize > 0 /\ MemoryUsed(bytesRead) > cfg.MaxPacketSize)
    /\ LET buf == StoreRead(readBuffer, rightOffset, Slice(stream, 0, bytesRead))
           useSpill == receiveHeld /\ Len(receiveBuffer) > 0
           inPlace == Slice(buf, leftOffset, rightOffset + bytesRead)
           source == IF useSpill THEN receiveBuffer \o inPlace ELSE inPlace
           d == Drain(cfg, source, leftOffset, rightOffset, delivered, useSpill, path)
       IN  /\ readBuffer' = buf
           /\ receiveBuffer' = d.spill
           /\ receiveHeld' = (receiveHeld \/ d.spilled)
           /\ leftOffset' = d.left
           /\ rightOffset' = d.right
           /\ delivered' = d.out
           /\ path' = d.path
    /\ stream' = Slice(stream, bytesRead, Len(stream))
    /\ UNCHANGED <<cfg, frames, fpc>>

\* the peer has sent everything: socket.Read closes the socket and returns
\* io.EOF, the loop breaks and the deferred function returns the buffers
FramingReadEOF ==
    /\ UNCHANGED notFramingVars
    /\ fpc = "read"
    /\ stream = <<>>
    /\ fpc' = "done"
    /\ receiveBuffer' = <<>>
    /\ UNCHANGED <<cfg, frames, stream, readBuffer, receiveHeld, leftOffset,
                   rightOffset, delivered, path>>

FramingNext ==
    \/ \E n \in 1..cfg.ReadBufferSize : FramingRead(n)
    \/ \E n \in 1..cfg.ReadBufferSize : FramingReadTooBig(n)
    \/ FramingReadEOF

\* ------------------------------------------------------------------ socket
Tasks == 1..NumTasks

CloseReasonServer == "CloseReasonServer"
CloseReasonClient == "CloseReasonClient"
\* Close() called without the variadic reason
NoReason == "none"

\* error values a net.Conn hands to Read / Write: whether the value is io.EOF
\* itself, its errno, and the marker phrases its message contains
ErrEOF == [name |-> "io.EOF", isEOF |-> TRUE, errno |-> "none", phrases |-> {}]
ErrConnReset ==
    [name |-> "ECONNRESET", isEOF |-> FALSE, errno |-> "ECONNRESET",
     phrases |-> {"reset by peer"}]
ErrNetClosed ==
    [name |-> "net.ErrClosed", isEOF |-> FALSE, errno |-> "none",
     phrases |-> {"use of closed network connection"}]
ErrPipe ==
    [name |-> "EPIPE", isEOF |-> FALSE, errno |-> "EPIPE", phrases |-> {"broken pipe"}]
ErrUnexpectedEOF ==
    [name |-> "io.ErrUnexpectedEOF", isEOF |-> FALSE, errno |-> "none",
     phrases |-> {"unexpected EOF"}]
ErrClosedPipe ==
    [name |-> "io.ErrClosedPipe", isEOF |-> FALSE, errno |-> "none",
     phrases |-> {"read/write on closed pipe"}]
ErrTimeout ==
    [name |-> "os.ErrDeadlineExceeded", isEOF |-> FALSE, errno |-> "none",
     phrases |-> {}]
ErrOther == [name |-> "EINVAL", isEOF |-> FALSE, errno |-> "EINVAL", phrases |-> {}]
NoError == [name |-> "nil", isEOF |-> FALSE, errno |-> "none", phrases |-> {}]

Errors == {ErrEOF, ErrConnReset, ErrNetClosed, ErrPipe, ErrUnexpectedEOF,
           ErrClosedPipe, ErrTimeout, ErrOther}

\* the substrings isBrokenPipe looks for in err.Error()
BrokenPipePhrases ==
    {"use of closed network connection",
     "wsarecv: An existing connection was forcibly closed by the remote host.",
     "broken pipe", "reset by peer", "unexpected EOF", "read/write on closed pipe"}

\* isBrokenPipe that knows io.EOF only
isBrokenPipeEOFOnly(err) == err.isEOF

isBrokenPipe(err) ==
    \/ err.isEOF
    \/ err.errno = "ECONNRESET"
    \/ err.phrases \cap BrokenPipePhrases # {}

\* r of Socket.Close: CloseReasonServer unless the caller gave a reason
CloseReasonOf(reason) == IF reason # NoReason THEN reason ELSE CloseReasonServer

\* index of the first handler the loop of Socket.Close runs (1-based; 0: none)
FirstHandler(handlers) == Len(handlers)
\* index of the handler the loop runs after handler i
NextHandler(i) == i - 1

\* a guard that lets the function run again once it has returned
OnceRunsAgain(once) == once # "running"

\* sync.Once.Do runs its function iff no call has started running it
OnceRuns(once) == once = "fresh"

IdleTask == [pc |-> "idle", op |-> "none", reason |-> NoReason, i |-> 0]
\* raw: the error of the wrapped reader / writer, err: the error returned
NoResult == [op |-> "none", raw |-> NoError, err |-> NoError]

SocketInit ==
    /\ sFault \in Errors
    /\ sCloseOnce = "fresh"
    /\ sCloseHandlers = <<>>
    /\ sConnCloses = 0
    /\ sCloseLog = <<>>
    /\ sTask = [t \in Tasks |-> IdleTask]
    /\ sResult = NoResult
    /\ sHist = [ops |-> 0, winnerOp |-> "none", winnerReason |-> NoReason, registered |-> 0]

CanStartOp(t) ==
    /\ sTask[t].pc = "idle"
    /\ \A u \in Tasks : u < t => sTask[u].pc # "idle"
    /\ sHist.ops < MaxOps

\* the closeHandlersMutex is read-locked while a Close runs the handlers
HandlersRLocked == \E t \in Tasks : sTask[t].pc = "handlers"

\* the operation of task t returns: Close returns nil (conn.Close of the mock
\* succeeds); Read / Write that closed the socket return io.EOF
Returns(t) ==
    /\ sResult' = IF sTask[t].op = "Close"
                   THEN [op |-> "Close", raw |-> NoError, err |-> NoError]
                   ELSE [op |-> sTask[t].op, raw |-> sFault, err |-> ErrEOF]
    /\ sTask' = [sTask EXCEPT ![t] = IdleTask]

\* a task calls Socket.Close(reason...)
SocketCallClose(t, reason) ==
    /\ UNCHANGED notSocketVars
    /\ CanStartOp(t)
    /\ sTask' = [sTask EXCEPT ![t] =
            [pc |-> "close", op |-> "Close", reason |-> reason, i |-> 0]]
    /\ sHist' = [sHist EXCEPT !.ops = @ + 1]
    /\ sResult' = NoResult
    /\ UNCHANGED <<sFault, sCloseOnce, sCloseHandlers, sConnCloses, sCloseLog>>

\* Socket.Read / Socket.Write: the wrapped reader / writer returns no error
SocketIO(t, op) ==
    /\ UNCHANGED notSocketVars
    /\ CanStartOp(t)
    /\ sResult' = [op |-> op, raw |-> NoError, err |-> NoError]
    /\ sHist' = [sHist EXCEPT !.ops = @ + 1]
    /\ UNCHANGED <<sFault, sCloseOnce, sCloseHandlers, sConnCloses, sCloseLog, sTask>>

\* Socket.Read / Socket.Write: the wrapped reader / writer returns sFault
SocketIOError(t, op) ==
    /\ UNCHANGED notSocketVars
    /\ CanStartOp(t)
    /\ IF isBrokenPipe(sFault)
       THEN /\ sTask' = [sTask EXCEPT ![t] =
                    [pc |-> "close", op |-> op, reason |-> CloseReasonClient, i |-> 0]]
            /\ sHist' = [sHist EXCEPT !.ops = @ + 1]
            /\ sResult' = NoResult
       ELSE /\ sResult' = [op |-> op, raw |-> sFault, err |-> sFault]
            /\ sHist' = [sHist EXCEPT !.ops = @ + 1]
            /\ UNCHANGED sTask
    /\ UNCHANGED <<sFault, sCloseOnce, sCloseHandlers, sConnCloses, sCloseLog>>

\* closeOnce.Do of Socket.Close, entered by the first caller: conn.Close()
SocketCloseWin(t) ==
    /\ UNCHANGED notSocketVars
    /\ sTask[t].pc = "close"
    /\ OnceRuns(sCloseOnce)
    /\ sCloseOnce' = "running"
    /\ sConnCloses' = sConnCloses + 1
    /\ sTask' = [sTask EXCEPT ![t].pc = "lock",
                              ![t].reason = CloseReasonOf(sTask[t].reason)]
    /\ sHist' = [sHist EXCEPT !.winnerOp = sTask[t].op,
                              !.winnerReason = sTask[t].reason,
                              !.registered = Len(sCloseHandlers)]
    /\ UNCHANGED <<sFault, sCloseHandlers, sCloseLog, sResult>>

\* closeOnce.Do entered while another call runs the function: the caller blocks
SocketCloseBlock(t) ==
    /\ UNCHANGED notSocketVars
    /\ sTask[t].pc = "close"
    /\ ~OnceRuns(sCloseOnce)
    /\ sCloseOnce = "running"
    /\ sTask' = [sTask EXCEPT ![t].pc = "wait"]
    /\ UNCHANGED <<sFault, sCloseOnce, sCloseHandlers, sConnCloses, sCloseLog, sResult, sHist>>

\* closeOnce.Do after the function has run (entered then, or blocked until
\* then): Close returns without doing anything
SocketCloseSkip(t) ==
    /\ UNCHANGED notSocketVars
    /\ sTask[t].pc \in {"close", "wait"}
    /\ ~OnceRuns(sCloseOnce)
    /\ sCloseOnce = "done"
    /\ Returns(t)
    /\ UNCHANGED <<sFault, sCloseOnce, sCloseHandlers, sConnCloses, sCloseLog, sHist>>

\* closeHandlersMutex.RLock() and the start of the loop over closeHandlers
SocketCloseLock(t) ==
    /\ UNCHANGED notSocketVars
    /\ sTask[t].pc = "lock"
    /\ sTask' = [sTask EXCEPT ![t].pc = "handlers", ![t].i = FirstHandler(sCloseHandlers)]
    /\ UNCHANGED <<sFault, sCloseOnce, sCloseHandlers, sConnCloses, sCloseLog, sResult, sHist>>

\* one iteration of the loop: handler(r)
SocketCloseHandler(t) ==
    /\ UNCHANGED notSocketVars
    /\ sTask[t].pc = "handlers"
    /\ sTask[t].i >= 1
    /\ sCloseLog' = Append(sCloseLog,
            [handler |-> sCloseHandlers[sTask[t].i], reason |-> sTask[t].reason])
    /\ sTask' = [sTask EXCEPT ![t].i = NextHandler(sTask[t].i)]
    /\ UNCHANGED <<sFault, sCloseOnce, sCloseHandlers, sConnCloses, sResult, sHist>>

\* the loop is over: RUnlock, the function of closeOnce.Do returns
SocketCloseDone(t) ==
    /\ UNCHANGED notSocketVars
    /\ sTask[t].pc = "handlers"
    /\ sTask[t].i < 1
    /\ sCloseOnce' = "done"
    /\ Returns(t)
    /\ UNCHANGED <<sFault, sCloseHandlers, sConnCloses, sCloseLog, sHist>>

\* Socket.OnClose(handler): append under closeHandlersMutex.Lock()
SocketOnClose(t) ==
    /\ UNCHANGED notSocketVars
    /\ CanStartOp(t)
    /\ ~HandlersRLocked
    /\ Len(sCloseHandlers) < MaxHandlers
    /\ sCloseHandlers' = Append(sCloseHandlers, Len(sCloseHandlers) + 1)
    /\ sHist' = [sHist EXCEPT !.ops = @ + 1]
    /\ sResult' = NoResult
    /\ UNCHANGED <<sFault, sCloseOnce, sConnCloses, sCloseLog, sTask>>

SocketNext ==
    \/ \E t \in Tasks, r \in {NoReason, CloseReasonServer, CloseReasonClient} :
            SocketCallClose(t, r)
    \/ \E t \in Tasks, op \in {"Read", "Write"} : SocketIO(t, op)
    \/ \E t \in Tasks, op \in {"Read", "Write"} : SocketIOError(t, op)
    \/ \E t \in Tasks : SocketCloseWin(t)
    \/ \E t \in Tasks : SocketCloseBlock(t)
    \/ \E t \in Tasks : SocketCloseSkip(t)
    \/ \E t \in Tasks : SocketCloseLock(t)
    \/ \E t \in Tasks : SocketCloseHandler(t)
    \/ \E t \in Tasks : SocketCloseDone(t)
    \/ \E t \in Tasks : SocketOnClose(t)

\* ------------------------------------------------ sockets list and server
Conns == 1..MaxConns
\* the pool allocates a Socket object when it has none to hand out; a
\* connection uses one object, so MaxConns objects are enough
Sockets == 1..MaxConns

\* ServerConfig.MaxClients when the user sets none: no limit
Unlimited == -1
\* capacity of Server.errorChannel
ErrorChannelCap == 1

\* the errors Abort is called with
AbortErrors == {"e1", "e2"}

\* the operations of a SocketRef that return an error
RefOps == {"Read", "Write", "Close", "SetDeadline", "SetReadDeadline",
           "SetWriteDeadline"}

\* a Socket object as the pool allocates it and as reset() leaves it
ZeroSocket ==
    [conn |-> 0, closeOnce |-> "fresh", recycleHandlers |-> <<>>,
     recyclable |-> FALSE, prev |-> 0, next |-> 0]

NoRef == [made |-> FALSE, obj |-> 0, s |-> 0, stale |-> FALSE]
NoTask == [pc |-> "none", socket |-> 0, panicked |-> FALSE, reported |-> FALSE]
NoLast == [op |-> "none"]
NoAbort == [running |-> "nil", called |-> FALSE]

\* the part of the state the sockets list and the Socket methods work on
World ==
    [sock |-> sock, conn |-> conn, pool |-> pool, allocs |-> allocs,
     pooling |-> pooling,
     head |-> head, tail |-> tail, size |-> size, ref |-> ref,
     recycled |-> recycled]

Apply(w) ==
    /\ sock' = w.sock
    /\ conn' = w.conn
    /\ pool' = w.pool
    /\ allocs' = w.allocs
    /\ pooling' = w.pooling
    /\ head' = w.head
    /\ tail' = w.tail
    /\ size' = w.size
    /\ ref' = w.ref
    /\ recycled' = w.recycled

\* Socket.Close() finds no connection to close: s.conn is nil
ClosePanics(w, s) ==
    OnceRuns(w.sock[s].closeOnce) /\ w.sock[s].conn = 0

\* Socket.Close(), close handlers left out
closeSocket(w, s) ==
    IF ~OnceRuns(w.sock[s].closeOnce) THEN w
    ELSE [w EXCEPT !.sock[s].closeOnce = "done",
                   !.conn = IF w.sock[s].conn = 0 THEN @
                            ELSE [@ EXCEPT ![w.sock[s].conn] = "closed"]]

\* SocketRef.onRecycle of reference r
onRecycle(refs, r) == [refs EXCEPT ![r].s = 0]

\* the recycle handlers of a Socket, last registered first
RECURSIVE RunRecycleHandlers(_, _, _)
RunRecycleHandlers(refs, handlers, i) ==
    IF i < 1 THEN refs
    ELSE RunRecycleHandlers(onRecycle(refs, handlers[i]), handlers, i - 1)

\* Socket.recycle(); history: the references made for the object are stale
\* and its connection is recorded as recycled
recycle(w, s) ==
    LET ran == RunRecycleHandlers(w.ref, w.sock[s].recycleHandlers,
                                  Len(w.sock[s].recycleHandlers))
    IN  [w EXCEPT !.sock[s].recyclable = TRUE,
                  !.ref = [r \in Conns |->
                            IF ran[r].made /\ ran[r].obj = s
                            THEN [ran[r] EXCEPT !.stale = TRUE] ELSE ran[r]],
                  !.recycled = IF w.sock[s].conn = 0 THEN @
                               ELSE @ \cup {w.sock[s].conn}]

\* Socket.reset()
reset(w, s) == [w EXCEPT !.sock[s] = ZeroSocket]

\* socketsList.recycleSocket
\* history: whether the object put was in the pool already
recycleSocket(w, s) ==
    [reset(w, s) EXCEPT !.pool = @ \cup {s},
                        !.pooling.twice = @ \/ s \in w.pool]

\* what pool.Get() may return: an object put back, or a newly allocated one
GetChoices(w) ==
    w.pool \cup (IF w.allocs < MaxConns THEN {w.allocs + 1} ELSE {})

\* socketsList.newSocket with pool.Get() returning s; init sets the connection
newSocket(w, s, c) ==
    [w EXCEPT !.pool = @ \ {s},
              !.allocs = IF s \in w.pool THEN @ ELSE @ + 1,
              !.pooling.dropped = @ \/ (s \notin w.pool /\ w.pool # {}),
              !.sock[s].conn = c]

\* the capacity check of registerSocket with the comparison off by one
ListFullOffByOne(n, max) == max >= 0 /\ n > max

\* the capacity check of registerSocket
ListFull(n, max) == max >= 0 /\ n >= max

\* socketsList.registerSocket, when the list has room
registerSocket(w, s) ==
    IF w.head = 0
    THEN [w EXCEPT !.head = s, !.tail = s, !.size = @ + 1]
    ELSE [w EXCEPT !.sock[w.tail].next = s, !.sock[s].prev = w.tail,
                   !.tail = s, !.size = @ + 1]

\* socketsList.New with pool.Get() returning s: the world after, and the
\* Socket returned (0 is nil)
New(w, s, c) ==
    LET made == newSocket(w, s, c)
    IN  IF ListFull(made.size, maxSize)
        THEN [w |-> recycleSocket([made EXCEPT !.conn[c] = "closed"], s),
              socket |-> 0]
        ELSE [w |-> registerSocket(made, s), socket |-> s]

\* an iteration that leaves the new tail pointing at the socket it removed
UnlinkKeepsNext(w, socket) ==
    LET p == w.sock[socket].prev
        n == w.sock[socket].next
        cut == CASE socket = w.head -> [w EXCEPT !.head = n]
                 [] socket = w.tail -> [w EXCEPT !.tail = p]
                 [] OTHER -> [w EXCEPT !.sock[p].next = n, !.sock[n].prev = p]
    IN  [recycleSocket(cut, socket) EXCEPT !.size = @ - 1]

\* one iteration of the loop of Cleanup for a recyclable socket
Unlink(w, socket) ==
    LET p == w.sock[socket].prev
        n == w.sock[socket].next
        cut == CASE socket = w.head -> [w EXCEPT !.head = n]
                 [] socket = w.tail -> [w EXCEPT !.tail = p, !.sock[p].next = 0]
                 [] OTHER -> [w EXCEPT !.sock[p].next = n, !.sock[n].prev = p]
    IN  [recycleSocket(cut, socket) EXCEPT !.size = @ - 1]

\* a loop that also removes the sockets that were closed
RECURSIVE CleanupLoopClosed(_, _)
CleanupLoopClosed(w, socket) ==
    IF socket = 0 THEN w
    ELSE LET next == w.sock[socket].next
         IN  IF w.sock[socket].recyclable \/ w.sock[socket].closeOnce = "done"
             THEN CleanupLoopClosed(Unlink(w, socket), next)
             ELSE CleanupLoopClosed(w, next)

RECURSIVE CleanupLoop(_, _)
CleanupLoop(w, socket) ==
    IF socket = 0 THEN w
    ELSE LET next == w.sock[socket].next
         IN  IF w.sock[socket].recyclable
             THEN CleanupLoop(Unlink(w, socket), next)
             ELSE CleanupLoop(w, next)

\* socketsList.Cleanup
Cleanup(w) == CleanupLoop(w, w.head)

\* the loop of Reset: the post statement socket = socket.next reads the
\* field after recycleSocket has reset the object
RECURSIVE ResetLoop(_, _)
ResetLoop(w, socket) ==
    IF socket = 0 THEN w
    ELSE LET after == recycleSocket(recycle(closeSocket(w, socket), socket),
                                    socket)
         IN  ResetLoop(after, after.sock[socket].next)

\* socketsList.Reset
Reset(w) == [ResetLoop(w, w.head) EXCEPT !.head = 0, !.tail = 0, !.size = 0]

\* the connections of the sockets linked from socket on, at most n of them
RECURSIVE Listed(_, _, _)
Listed(w, socket, n) ==
    IF socket = 0 \/ n = 0 THEN {}
    ELSE {w.sock[socket].conn} \cup Listed(w, w.sock[socket].next, n - 1)

\* NewServer
ServerInit ==
    /\ sock = [s \in Sockets |-> ZeroSocket]
    /\ conn = [c \in Conns |-> "none"]
    /\ pool = {}
    /\ allocs = 0
    /\ pooling = [peak |-> 0, dropped |-> FALSE, twice |-> FALSE]
    /\ head = 0
    /\ tail = 0
    /\ size = 0
    /\ maxSize \in Unlimited..MaxClients
    /\ goroutines = 0
    /\ task = [c \in Conns |-> NoTask]
    /\ ref = [c \in Conns |-> NoRef]
    /\ srv = [isRunning |-> FALSE, listener |-> "none", housekeeping |-> FALSE,
              errorChannel |-> <<>>, abortOnce |-> "fresh", pc |-> "idle",
              pending |-> 0, result |-> "nil", runs |-> 0]
    /\ recycled = {}
    /\ last = NoLast
    /\ hist = NoAbort

\* the next connection a client opens
NextConn(c) ==
    /\ conn[c] = "none"
    /\ \A d \in Conns : d < c => conn[d] # "none"

\* the world once the listener has accepted connection c; history: the most
\* connections open at once
Accepted(w, c) ==
    LET open == {d \in Conns : d = c \/ w.conn[d] = "open"}
    IN  [w EXCEPT !.conn[c] = "open",
                  !.pooling.peak = IF Cardinality(open) > @
                                   THEN Cardinality(open) ELSE @]

\* handleNewConnection for the accepted connection c: sockets.New, then
\* OnAccept starts the goroutine; history: what New did
HandleNewConnection(c) ==
    \E before \in {Accepted(World, c)} :
    \E s \in GetChoices(before) :
    \E r \in {New(before, s, c)} :
        /\ Apply(r.w)
        /\ task' = IF r.socket = 0 THEN task
                   ELSE [task EXCEPT ![c] = [NoTask EXCEPT !.pc = "start",
                                                           !.socket = r.socket]]
        /\ last' = [op |-> "New",
                    conn |-> c,
                    full |-> maxSize >= 0 /\ size = maxSize,
                    socket |-> r.socket,
                    closed |-> r.w.conn[c] = "closed",
                    pooled |-> s \in r.w.pool /\ r.w.sock[s] = ZeroSocket,
                    same |-> <<r.w.head, r.w.tail, r.w.size>> = <<head, tail, size>>]

\* sockets.Reset; history: what it left of the sockets that were in the list
Resetting ==
    \E after \in {Reset(World)}, listed \in {Listed(World, head, MaxConns)} :
        /\ Apply(after)
        /\ last' = [op |-> "Reset",
                    n |-> Cardinality(listed),
                    open |-> {c \in listed : after.conn[c] # "closed"},
                    unrecycled |-> listed \ after.recycled,
                    len |-> after.size]

\* no call is waiting for its caller to look at what it did
Quiet == last.op = "none"

\* the list used without a server: a connection is handed to New and the
\* Socket to a goroutine
ListNew(c) ==
    /\ Quiet
    /\ NextConn(c)
    /\ HandleNewConnection(c)
    /\ UNCHANGED <<maxSize, goroutines, srv, hist>>
    /\ UNCHANGED notServerVars

\* the list used without a server: Cleanup; history: the size it found, how
\* many of the listed sockets had been closed with Close(), the size it left
ListCleanup ==
    /\ Quiet
    /\ \E after \in {Cleanup(World)}, listed \in {Listed(World, head, MaxConns)} :
        /\ Apply(after)
        /\ last' = [op |-> "Cleanup",
                    n |-> size,
                    closed |-> Cardinality({c \in listed \cap Conns :
                                                conn[c] = "closed"}),
                    len |-> after.size]
    /\ UNCHANGED <<maxSize, goroutines, task, srv, hist>>
    /\ UNCHANGED notServerVars

\* the list used without a server: Reset
ListReset ==
    /\ Quiet
    /\ Resetting
    /\ UNCHANGED <<maxSize, goroutines, task, srv, hist>>
    /\ UNCHANGED notServerVars

\* Server.Start up to the accept loop, with a listener that can listen
ServerStart ==
    /\ Quiet
    /\ srv.pc \in {"idle", "returned"}
    /\ ~srv.isRunning
    /\ srv.runs < MaxRuns
    /\ srv' = [srv EXCEPT !.isRunning = TRUE, !.listener = "open",
                          !.housekeeping = TRUE, !.pc = "accept",
                          !.result = "nil", !.runs = @ + 1]
    /\ hist' = NoAbort
    /\ UNCHANGED last
    /\ UNCHANGED <<sock, conn, pool, allocs, pooling, head, tail, size, maxSize, goroutines,
                   task,
                   ref, recycled>>
    /\ UNCHANGED notServerVars

\* acceptLoop: listener.Accept() returns the next connection
ServerAccept ==
    /\ Quiet
    /\ srv.pc = "accept"
    /\ srv.listener = "open"
    /\ \E c \in Conns :
        /\ NextConn(c)
        /\ srv' = [srv EXCEPT !.pc = "handle", !.pending = c]
    /\ UNCHANGED last
    /\ UNCHANGED <<sock, conn, pool, allocs, pooling, head, tail, size, maxSize, goroutines,
                   task, ref,
                   recycled, hist>>
    /\ UNCHANGED notServerVars

\* acceptLoop: handleNewConnection for the connection Accept() returned
ServerHandleNewConnection ==
    /\ Quiet
    /\ srv.pc = "handle"
    /\ HandleNewConnection(srv.pending)
    /\ srv' = [srv EXCEPT !.pc = "accept", !.pending = 0]
    /\ UNCHANGED <<maxSize, goroutines, hist>>
    /\ UNCHANGED notServerVars

\* acceptLoop: Accept() fails on the closed listener, the loop breaks and the
\* error channel is drained without blocking
ServerAcceptBreak ==
    /\ Quiet
    /\ srv.pc = "accept"
    /\ srv.listener = "closed"
    /\ isBrokenPipe(ErrNetClosed)
    /\ srv' = [srv EXCEPT !.pc = "returned",
                          !.result = IF srv.errorChannel = <<>> THEN "nil"
                                     ELSE Head(srv.errorChannel),
                          !.errorChannel = IF @ = <<>> THEN @ ELSE Tail(@)]
    /\ UNCHANGED last
    /\ UNCHANGED <<sock, conn, pool, allocs, pooling, head, tail, size, maxSize, goroutines,
                   task,
                   ref, recycled, hist>>
    /\ UNCHANGED notServerVars

\* the body of Server.Stop on a running server
Stopping(server) ==
    /\ srv' = [server EXCEPT !.isRunning = FALSE, !.listener = "closed",
                             !.housekeeping = FALSE]
    /\ Resetting

\* Server.Stop; a call on a server that is not running does nothing
ServerStop ==
    /\ Quiet
    /\ srv.isRunning
    /\ Stopping(srv)
    /\ UNCHANGED <<maxSize, goroutines, task, hist>>
    /\ UNCHANGED notServerVars

\* Server.Abort(e): once, push e unless the channel is full, then Stop;
\* history: the call counts for the Start() call that has not returned
ServerAbort(e) ==
    /\ Quiet
    /\ LET pushed == [srv EXCEPT
                        !.abortOnce = "done",
                        !.errorChannel = IF Len(@) < ErrorChannelCap
                                         THEN Append(@, e) ELSE @]
       IN  IF OnceRuns(srv.abortOnce) /\ srv.isRunning
           THEN Stopping(pushed)
           ELSE /\ srv' = IF OnceRuns(srv.abortOnce) THEN pushed ELSE srv
                /\ UNCHANGED last
                /\ UNCHANGED <<sock, conn, pool, allocs, pooling, head, tail, size, ref,
                               recycled>>
    /\ hist' = [running |-> IF srv.isRunning /\ hist.running = "nil" THEN e
                             ELSE hist.running,
                 called |-> hist.called \/ srv.pc \in {"accept", "handle"}]
    /\ UNCHANGED <<maxSize, goroutines, task>>
    /\ UNCHANGED notServerVars

\* housekeepingJobTick while the job runs: sockets.Cleanup
ServerTick ==
    /\ Quiet
    /\ srv.housekeeping
    /\ \E after \in {Cleanup(World)} : Apply(after)
    /\ UNCHANGED last
    /\ UNCHANGED <<maxSize, goroutines, task, srv, hist>>
    /\ UNCHANGED notServerVars

\* the handler of connection c calls NewSocketRef(socket)
HandlerNewSocketRef(c) ==
    /\ Quiet
    /\ task[c].pc = "run"
    /\ ~ref[c].made
    /\ LET s == task[c].socket
       IN  /\ ref' = [ref EXCEPT ![c] = [made |-> TRUE, obj |-> s, s |-> s,
                                         stale |-> FALSE]]
           /\ sock' = [sock EXCEPT ![s].recycleHandlers = Append(@, c)]
    /\ UNCHANGED last
    /\ UNCHANGED <<conn, pool, allocs, pooling, head, tail, size, maxSize, goroutines,
                   task, srv,
                   recycled, hist>>
    /\ UNCHANGED notServerVars

\* the goroutine OnAccept started for connection c begins: the counter goes
\* up and the handler is called
HandlerStart(c) ==
    /\ Quiet
    /\ task[c].pc = "start"
    /\ goroutines' = goroutines + 1
    /\ task' = [task EXCEPT ![c].pc = "run"]
    /\ UNCHANGED last
    /\ UNCHANGED <<sock, conn, pool, allocs, pooling, head, tail, size, maxSize, ref, srv,
                   recycled, hist>>
    /\ UNCHANGED notServerVars

\* the handler of connection c returns or panics and the deferred
\* socket.Close() runs; on a Socket without connection Close panics, the rest
\* of the deferred function is skipped and the goroutine recovers, passing
\* the panic to the panic handler
HandlerReturn(c) ==
    /\ Quiet
    /\ task[c].pc = "run"
    /\ LET s == task[c].socket
       IN  /\ \E after \in {closeSocket(World, s)} : Apply(after)
           /\ \E panics \in BOOLEAN :
                task' = [task EXCEPT ![c] =
                    IF ClosePanics(World, s)
                    THEN [@ EXCEPT !.pc = "panic", !.panicked = panics,
                                   !.reported = TRUE]
                    ELSE [@ EXCEPT !.pc = "recycle", !.panicked = panics]]
    /\ UNCHANGED last
    /\ UNCHANGED <<maxSize, goroutines, srv, hist>>
    /\ UNCHANGED notServerVars

\* the rest of the deferred function of the goroutine of connection c:
\* socket.recycle(), the counter goes down; then the recovering function
\* passes a panic of the handler to the panic handler
HandlerRecycle(c) ==
    /\ Quiet
    /\ task[c].pc = "recycle"
    /\ \E after \in {recycle(World, task[c].socket)} : Apply(after)
    /\ goroutines' = goroutines - 1
    /\ task' = [task EXCEPT ![c].pc = "done", ![c].reported = task[c].panicked]
    /\ UNCHANGED last
    /\ UNCHANGED <<maxSize, srv, hist>>
    /\ UNCHANGED notServerVars

\* an operation through the SocketRef made by the handler of connection c:
\* io.EOF when the pointer is nil, forwarded to the Socket otherwise; a
\* forwarded call panics on a Socket that has no connection
RefOp(c, op) ==
    /\ Quiet
    /\ ref[c].made
    /\ LET s == ref[c].s
           did == [op |-> "Ref", call |-> op, ref |-> c, obj |-> ref[c].obj,
                   stale |-> ref[c].stale]
       IN  IF s = 0
           THEN /\ last' = did @@ [err |-> "io.EOF", touched |-> 0]
                /\ UNCHANGED <<sock, conn, pool, allocs, pooling, head, tail, size, ref,
                               recycled>>
           ELSE /\ last' = did @@
                        [err |-> IF sock[s].conn = 0 THEN "panic" ELSE "nil",
                         touched |-> s]
                /\ \E after \in {IF op = "Close" THEN closeSocket(World, s)
                                  ELSE World} : Apply(after)
    /\ UNCHANGED <<maxSize, goroutines, task, srv, hist>>
    /\ UNCHANGED notServerVars

\* the caller of New, Reset or of an operation of a SocketRef has looked at
\* what the call did
CallReturns ==
    /\ ~Quiet
    /\ last' = NoLast
    /\ UNCHANGED <<sock, conn, pool, allocs, pooling, head, tail, size, maxSize, goroutines,
                   task, ref,
                   srv, recycled, hist>>
    /\ UNCHANGED notServerVars

\* the sockets list with goroutines, no SocketRef
ListNext ==
    \/ \E c \in Conns : ListNew(c)
    \/ ListCleanup
    \/ ListReset
    \/ \E c \in Conns : HandlerStart(c)
    \/ \E c \in Conns : HandlerReturn(c)
    \/ \E c \in Conns : HandlerRecycle(c)
    \/ CallReturns

\* the sockets list with goroutines that make and use SocketRefs
RefNext ==
    \/ \E c \in Conns : ListNew(c)
    \/ ListCleanup
    \/ ListReset
    \/ \E c \in Conns : HandlerStart(c)
    \/ \E c \in Conns : HandlerNewSocketRef(c)
    \/ \E c \in Conns : HandlerReturn(c)
    \/ \E c \in Conns : HandlerRecycle(c)
    \/ \E c \in Conns, op \in RefOps : RefOp(c, op)
    \/ CallReturns

ServerNext ==
    \/ ServerStart
    \/ ServerAccept
    \/ ServerHandleNewConnection
    \/ ServerAcceptBreak
    \/ ServerStop
    \/ \E e \in AbortErrors : ServerAbort(e)
    \/ ServerTick
    \/ \E c \in Conns : HandlerStart(c)
    \/ \E c \in Conns : HandlerNewSocketRef(c)
    \/ \E c \in Conns : HandlerReturn(c)
    \/ \E c \in Conns : HandlerRecycle(c)
    \/ CallReturns

\* ------------------------------------------- Start, Stop and the accept loop
\* Server of server.go: the configuration calls, Start, Stop and the accept
\* loop with its accept-error handler, used by several tasks.

\* the error values of Start() before the accept loop
ErrEmptyListener == "empty listener"
ErrEmptyForkingStrategy == "empty forking strategy"
ErrListen == "listen failed"
StartErrors == {ErrEmptyListener, ErrEmptyForkingStrategy, ErrListen}

\* the calls a task makes on the Server
ServerCalls ==
    {[op |-> "Start", arg |-> "none"], [op |-> "Stop", arg |-> "none"],
     [op |-> "ForkingStrategy", arg |-> "nil"],
     [op |-> "ForkingStrategy", arg |-> "set"],
     [op |-> "Listener", arg |-> "nil"], [op |-> "Listener", arg |-> "set"]}

\* a task that is not inside a call: what its last call returned and did
NoCall == [op |-> "none", arg |-> "none", pc |-> "idle", result |-> "none",
           did |-> {}, pending |-> "none", lastErr |-> NoError]

\* the times Accept() returned on a listening socket and, since it last
\* returned, the calls of sockets.New, OnAccept and the accept-error handler
NoAccepts == [returns |-> 0, news |-> 0, onAccepts |-> 0, handled |-> 0]

\* NewServer: the default listener is set, no forking strategy, nothing runs;
\* OnAcceptError was called or not
LifecycleInit ==
    /\ lifecycle \in
        {[listener |-> "set", forkingStrategy |-> "nil", acceptErrorHandler |-> h,
          runningMutex |-> 0, isRunning |-> FALSE, ticker |-> FALSE,
          bound |-> "none", size |-> 0, maxSize |-> m, job |-> "none",
          call |-> [t \in Tasks |-> NoCall], calls |-> 0, accepts |-> NoAccepts]
         : h \in BOOLEAN, m \in Unlimited..MaxClients}

\* the errors Accept() of a listening socket returns: io.EOF from a listener
\* that is gone, a connection reset before it was accepted, a deadline, any
\* other errno
AcceptErrors == {ErrEOF, ErrConnReset, ErrTimeout, ErrOther}

\* what Accept() returns: a connection or an error; on a closed listener the
\* error of a closed network connection
AcceptOutcomes(bound) ==
    IF bound = "open"
    THEN {[conn |-> TRUE, err |-> NoError]}
         \cup {[conn |-> FALSE, err |-> e] : e \in AcceptErrors}
    ELSE {[conn |-> FALSE, err |-> ErrNetClosed]}

\* acceptLoop: continue after this Accept error instead of breaking
AcceptContinuesNever(err) == FALSE

AcceptContinues(err) == ~isBrokenPipe(err)

\* a task calls one of the Server's methods
LifecycleCall(t, c) ==
    /\ lifecycle.call[t].pc \in {"idle", "returned"}
    /\ \A u \in Tasks : u < t => lifecycle.call[u].pc # "idle"
    /\ lifecycle.calls < MaxCalls
    /\ lifecycle' = [lifecycle EXCEPT
            !.calls = @ + 1,
            !.call[t] = [NoCall EXCEPT !.op = c.op, !.arg = c.arg,
                                       !.pc = "lock"]]
    /\ UNCHANGED notLifecycleVars

\* runningMutex.Lock(): the call goes on once the mutex is free
LifecycleLock(t) ==
    /\ lifecycle.call[t].pc = "lock"
    /\ lifecycle.runningMutex = 0
    /\ lifecycle' = [lifecycle EXCEPT !.runningMutex = t, !.call[t].pc = "body"]
    /\ UNCHANGED notLifecycleVars

\* Start() from the checks to the accept loop; listens says whether
\* listener.Listen() succeeds
LifecycleStart(t, listens) ==
    /\ lifecycle.call[t].pc = "body"
    /\ lifecycle.call[t].op = "Start"
    /\ lifecycle' =
        IF lifecycle.listener = "nil"
        THEN [lifecycle EXCEPT !.call[t].pc = "returned",
                               !.call[t].result = ErrEmptyListener]
        ELSE IF lifecycle.forkingStrategy = "nil"
        THEN [lifecycle EXCEPT !.call[t].pc = "returned",
                               !.call[t].result = ErrEmptyForkingStrategy]
        ELSE IF ~listens
        THEN [lifecycle EXCEPT !.call[t].pc = "returned",
                               !.call[t].result = ErrListen]
        ELSE [lifecycle EXCEPT
                !.bound = "open",
                !.job = "spawned",
                !.isRunning = TRUE,
                !.runningMutex = 0,
                !.call[t].did = {"startBackgroundJob", "OnStart", "startHandler",
                                 "isRunning"},
                !.call[t].pc = "accept"]
    /\ UNCHANGED notLifecycleVars

\* the goroutine of startBackgroundJob: it makes the ticker unless there is
\* one and ranges over its channel
LifecycleBackgroundJob ==
    /\ lifecycle.job = "spawned"
    /\ lifecycle' = [lifecycle EXCEPT !.ticker = TRUE, !.job = "ranging"]
    /\ UNCHANGED notLifecycleVars

\* acceptLoop: listener.Accept() returns
LifecycleAccept(t) ==
    /\ lifecycle.call[t].pc = "accept"
    /\ \E got \in AcceptOutcomes(lifecycle.bound) :
        /\ lifecycle.bound = "open" => lifecycle.accepts.returns < MaxAccepts
        /\ LET returns == IF lifecycle.bound = "open"
                          THEN lifecycle.accepts.returns + 1
                          ELSE lifecycle.accepts.returns
               counted == [lifecycle EXCEPT
                              !.accepts = [NoAccepts EXCEPT !.returns = returns]]
           IN  lifecycle' =
                IF got.conn
                THEN [counted EXCEPT !.call[t].pc = "handle",
                                     !.call[t].pending = "conn",
                                     !.call[t].lastErr = NoError]
                ELSE [counted EXCEPT !.call[t].pc = "error",
                                     !.call[t].pending = "error",
                                     !.call[t].lastErr = got.err]
    /\ UNCHANGED notLifecycleVars

\* acceptLoop: handleNewConnection; sockets.New admits the connection unless
\* the list is full, OnAccept gets the admitted Socket
LifecycleHandleNewConnection(t) ==
    /\ lifecycle.call[t].pc = "handle"
    /\ LET admitted == ~ListFull(lifecycle.size, lifecycle.maxSize)
       IN  lifecycle' = [lifecycle EXCEPT
                !.call[t].pc = "accept",
                !.call[t].pending = "none",
                !.accepts.news = @ + 1,
                !.accepts.onAccepts = IF admitted THEN @ + 1 ELSE @,
                !.size = IF admitted THEN @ + 1 ELSE @]
    /\ UNCHANGED notLifecycleVars

\* acceptLoop: the error branch; break on a broken pipe and return what the
\* error channel holds (nothing: Abort is not called here), else call the
\* accept-error handler if there is one and continue
LifecycleAcceptError(t) ==
    /\ lifecycle.call[t].pc = "error"
    /\ lifecycle' =
        IF AcceptContinues(lifecycle.call[t].lastErr)
        THEN [lifecycle EXCEPT
                !.call[t].pc = "accept",
                !.call[t].pending = "none",
                !.accepts.handled =
                    IF lifecycle.acceptErrorHandler THEN @ + 1 ELSE @]
        ELSE [lifecycle EXCEPT !.call[t].pc = "returned",
                               !.call[t].pending = "none",
                               !.call[t].lastErr = NoError,
                               !.call[t].result = "nil"]
    /\ UNCHANGED notLifecycleVars

\* Stop() under the mutex: nothing unless running; close the listener, stop
\* the ticker, close and recycle every socket, Cleanup
LifecycleStop(t) ==
    /\ lifecycle.call[t].pc = "body"
    /\ lifecycle.call[t].op = "Stop"
    /\ lifecycle' =
        IF ~lifecycle.isRunning
        THEN [lifecycle EXCEPT !.runningMutex = 0,
                               !.call[t].pc = "returned",
                               !.call[t].result = "nil"]
        ELSE [lifecycle EXCEPT !.isRunning = FALSE,
                               !.bound = "closed",
                               !.ticker = FALSE,
                               !.size = 0,
                               !.runningMutex = 0,
                               !.call[t].did = {"Close", "OnStop", "stopHandler"},
                               !.call[t].pc = "returned",
                               !.call[t].result = "nil"]
    /\ UNCHANGED notLifecycleVars

\* ForkingStrategy(f) and Listener(l) under the mutex: ignored while running
LifecycleConfigure(t) ==
    /\ lifecycle.call[t].pc = "body"
    /\ lifecycle.call[t].op \in {"ForkingStrategy", "Listener"}
    /\ LET done == [lifecycle EXCEPT !.runningMutex = 0,
                                     !.call[t].pc = "returned",
                                     !.call[t].arg = "none",
                                     !.call[t].result = "nil"]
       IN  lifecycle' =
            IF lifecycle.isRunning THEN done
            ELSE IF lifecycle.call[t].op = "Listener"
            THEN [done EXCEPT !.listener = lifecycle.call[t].arg]
            ELSE [done EXCEPT !.forkingStrategy = lifecycle.call[t].arg]
    /\ UNCHANGED notLifecycleVars

\* a server on which ForkingStrategy(f) and Start() were called: Start() of
\* the first task has reached the accept loop
StartedInit ==
    /\ lifecycle \in
        {[listener |-> "set", forkingStrategy |-> "set", acceptErrorHandler |-> h,
          runningMutex |-> 0, isRunning |-> TRUE, ticker |-> j = "ranging",
          bound |-> "open", size |-> 0, maxSize |-> m, job |-> j,
          call |-> [t \in Tasks |->
                      IF t = 1
                      THEN [NoCall EXCEPT
                              !.op = "Start", !.pc = "accept",
                              !.did = {"startBackgroundJob", "OnStart",
                                       "startHandler", "isRunning"}]
                      ELSE NoCall],
          calls |-> 1, accepts |-> NoAccepts]
         : h \in BOOLEAN, m \in Unlimited..MaxClients,
           j \in {"spawned", "ranging"}}

\* the accept loop of a started server, and Stop() called by another task
StartedNext ==
    \/ \E t \in Tasks : LifecycleAccept(t)
    \/ \E t \in Tasks : LifecycleHandleNewConnection(t)
    \/ \E t \in Tasks : LifecycleAcceptError(t)
    \/ \E t \in Tasks : LifecycleCall(t, [op |-> "Stop", arg |-> "none"])
    \/ \E t \in Tasks : LifecycleLock(t)
    \/ \E t \in Tasks : LifecycleStop(t)
    \/ LifecycleBackgroundJob

LifecycleNext ==
    \/ \E t \in Tasks, c \in ServerCalls : LifecycleCall(t, c)
    \/ \E t \in Tasks : LifecycleLock(t)
    \/ \E t \in Tasks, listens \in BOOLEAN : LifecycleStart(t, listens)
    \/ \E t \in Tasks : LifecycleAccept(t)
    \/ \E t \in Tasks : LifecycleHandleNewConnection(t)
    \/ \E t \in Tasks : LifecycleAcceptError(t)
    \/ \E t \in Tasks : LifecycleStop(t)
    \/ \E t \in Tasks : LifecycleConfigure(t)
    \/ LifecycleBackgroundJob

\* ---------------------------------------------------------------- metrics
\* Sockets that read and write while the housekeeping job ticks:
\* updateMetrics, then Cleanup.

\* seconds of config.TickInterval
TickIntervals == {1, 2}

NoBytes == [read |-> 0, written |-> 0]

\* a Socket fresh from init(): nothing counted yet
NoMeteredSocket == [state |-> "none", current |-> NoBytes]

ZeroMetrics == [TotalRead |-> 0, TotalWritten |-> 0, ReadLastSecond |-> 0,
                WrittenLastSecond |-> 0, Connections |-> 0]

MeterInit ==
    /\ meter \in
        {[interval |-> i, socket |-> [c \in Conns |-> NoMeteredSocket],
          metrics |-> ZeroMetrics, pc |-> "idle", ticks |-> 0,
          crossed |-> NoBytes, atTick |-> NoBytes, atTickBefore |-> NoBytes]
         : i \in TickIntervals}

\* the sockets in the list
Metered(m) == {c \in Conns : m.socket[c].state \in {"run", "recyclable"}}

RECURSIVE SumOver(_, _, _)
\* the sum of f[c].current[dir] over the connections cs
SumOver(f, cs, dir) ==
    IF cs = {} THEN 0
    ELSE LET c == CHOOSE x \in cs : TRUE
         IN  f[c].current[dir] + SumOver(f, cs \ {c}, dir)

\* meteredReader.update / meteredWriter.update of every listed socket: the
\* current counters are swapped with 0
Swapped(m) ==
    [c \in Conns |-> IF c \in Metered(m)
                     THEN [m.socket[c] EXCEPT !.current = NoBytes]
                     ELSE m.socket[c]]

\* uint64(float64(n) / interval.Seconds())
PerSecond(n, interval) == n \div interval

\* Cleanup: a recyclable socket leaves the list and recycleSocket resets it
Swept(s) == IF s.state = "recyclable" THEN [state |-> "swept", current |-> NoBytes]
            ELSE s

\* a connection is accepted: sockets.New, OnAccept starts its handler
MeterNew(c) ==
    /\ meter.socket[c].state = "none"
    /\ \A d \in Conns : d < c => meter.socket[d].state # "none"
    /\ meter' = [meter EXCEPT !.socket[c].state = "run"]
    /\ UNCHANGED notMeterVars

\* a handler reads or writes one byte through its Socket
MeterIO(c, dir) ==
    /\ meter.socket[c].state = "run"
    /\ meter.crossed.read + meter.crossed.written < MaxBytes
    /\ meter' = [meter EXCEPT !.socket[c].current[dir] = @ + 1,
                              !.crossed[dir] = @ + 1]
    /\ UNCHANGED notMeterVars

\* a handler returns: the deferred Close and recycle
MeterHandlerReturn(c) ==
    /\ meter.socket[c].state = "run"
    /\ meter' = [meter EXCEPT !.socket[c].state = "recyclable"]
    /\ UNCHANGED notMeterVars

\* housekeepingJobTick, first half: updateMetrics; history: the bytes that
\* had crossed the streams when this tick and the tick before began
MeterUpdateMetrics ==
    /\ meter.pc = "idle"
    /\ meter.ticks < MaxTicks
    /\ LET reads == SumOver(meter.socket, Metered(meter), "read")
           writes == SumOver(meter.socket, Metered(meter), "written")
       IN  meter' = [meter EXCEPT
                !.socket = Swapped(meter),
                !.metrics = [TotalRead |-> @.TotalRead + reads,
                             TotalWritten |-> @.TotalWritten + writes,
                             ReadLastSecond |-> PerSecond(reads, meter.interval),
                             WrittenLastSecond |->
                                PerSecond(writes, meter.interval),
                             Connections |-> Cardinality(Metered(meter))],
                !.pc = "cleanup",
                !.ticks = @ + 1,
                !.atTick = meter.crossed,
                !.atTickBefore = meter.atTick]
    /\ UNCHANGED notMeterVars

\* housekeepingJobTick, second half: sockets.Cleanup
MeterCleanup ==
    /\ meter.pc = "cleanup"
    /\ meter' = [meter EXCEPT
            !.socket = [c \in Conns |-> Swept(meter.socket[c])],
            !.pc = "idle"]
    /\ UNCHANGED notMeterVars

MeterNext ==
    \/ \E c \in Conns : MeterNew(c)
    \/ \E c \in Conns, dir \in {"read", "written"} : MeterIO(c, dir)
    \/ \E c \in Conns : MeterHandlerReturn(c)
    \/ MeterUpdateMetrics
    \/ MeterCleanup

\* ----------------------------------------------------------- configuration
\* NewServer(address, config) and the connections its sockets list admits.

\* NewServer(address) without a configuration
NilConfig == [literal |-> FALSE, sets |-> {}, MaxClients |-> 0, TickInterval |-> 0]

\* the configurations NewServer is called with: none, or a ServerConfig
\* literal that sets some of MaxClients and TickInterval
ServerConfigs ==
    {NilConfig}
    \cup {[literal |-> TRUE, sets |-> ks,
            MaxClients |-> IF "MaxClients" \in ks THEN m ELSE 0,
            TickInterval |-> IF "TickInterval" \in ks THEN i ELSE 0]
          : ks \in SUBSET {"MaxClients", "TickInterval"},
            m \in Unlimited..MaxClients, i \in TickIntervals}

\* the ServerConfig value a literal makes: a field it does not set has the
\* zero value of its type
ServerConfig(provided) ==
    [MaxClients |-> IF "MaxClients" \in provided.sets THEN provided.MaxClients
                    ELSE 0,
     TickInterval |-> IF "TickInterval" \in provided.sets
                      THEN provided.TickInterval ELSE 0]

mergeServerConfig(provided) ==
    LET config == [MaxClients |-> Unlimited, TickInterval |-> 1]
        given == ServerConfig(provided)
    IN  IF ~provided.literal THEN config
        ELSE [MaxClients |-> IF given.MaxClients > -1 THEN given.MaxClients
                             ELSE config.MaxClients,
              TickInterval |-> IF given.TickInterval # 0 THEN given.TickInterval
                               ELSE config.TickInterval]

\* NewServer: the sockets list takes the merged MaxClients
AdmissionInit ==
    /\ admission \in
        {[config |-> provided, maxSize |-> mergeServerConfig(provided).MaxClients,
          tickInterval |-> mergeServerConfig(provided).TickInterval,
          size |-> 0, news |-> 0, admitted |-> 0]
         : provided \in ServerConfigs}

\* sockets.New for an accepted connection: registerSocket takes it unless the
\* list is full
AdmissionNew ==
    /\ admission.news < MaxArrivals
    /\ LET full == ListFull(admission.size, admission.maxSize)
       IN  admission' = [admission EXCEPT
                !.news = @ + 1,
                !.admitted = IF full THEN @ ELSE @ + 1,
                !.size = IF full THEN @ ELSE @ + 1]
    /\ UNCHANGED notAdmissionVars

\* a handler has returned and Cleanup takes its socket out of the list
AdmissionCleanup ==
    /\ admission.size > 0
    /\ admission' = [admission EXCEPT !.size = @ - 1]
    /\ UNCHANGED notAdmissionVars

AdmissionNext ==
    \/ AdmissionNew
    \/ AdmissionCleanup

\* ------------------------------------------------- framing, by buffer sizes
\* The framing loop of a connection whose peer sends one frame that never
\* ends: no read contains a separator, so only the sizes of the buffers
\* matter.

DefaultReadBufferSize == 4096
DefaultMaxPacketSize == 16384
DefaultMinReadSpace == 1024

\* PacketFramingHandler called without a configuration
NilFramingConfig ==
    [literal |-> FALSE, ReadBufferSize |-> 0, MaxPacketSize |-> 0,
     MinReadSpace |-> 0]

\* the configurations PacketFramingHandler is called with: none, or a
\* PacketFramingConfig with MaxPacketSize 0, below or above the default
PacketFramingConfigs ==
    {NilFramingConfig}
    \cup {[literal |-> TRUE, ReadBufferSize |-> r, MaxPacketSize |-> m,
            MinReadSpace |-> 0]
          : r \in {0, 2048}, m \in {0, 6144, 20480}}

mergePacketFramingConfig(provided) ==
    LET config == [ReadBufferSize |-> DefaultReadBufferSize,
                   MaxPacketSize |-> DefaultMaxPacketSize,
                   MinReadSpace |-> DefaultMinReadSpace]
        merged ==
            IF ~provided.literal THEN config
            ELSE [ReadBufferSize |-> IF provided.ReadBufferSize > 0
                                     THEN provided.ReadBufferSize
                                     ELSE config.ReadBufferSize,
                  MaxPacketSize |-> IF provided.MaxPacketSize > 0
                                    THEN provided.MaxPacketSize
                                    ELSE config.MaxPacketSize,
                  MinReadSpace |-> IF provided.MinReadSpace > 0
                                   THEN provided.MinReadSpace
                                   ELSE config.MinReadSpace]
    IN  IF ~provided.literal THEN config
        ELSE IF merged.MinReadSpace > merged.ReadBufferSize
        THEN [merged EXCEPT !.MinReadSpace = merged.ReadBufferSize \div 4]
        ELSE merged

\* the numbers of bytes one socket.Read returns
ReadSizes == {512, 1024, 2048, 4096}

SizingInit ==
    /\ sizing \in
        {[provided |-> provided, c |-> mergePacketFramingConfig(provided),
          leftOffset |-> 0, rightOffset |-> 0, receiveBuffer |-> 0,
          reads |-> 0, dropped |-> FALSE, most |-> 0]
         : provided \in PacketFramingConfigs}

\* one iteration of the outer loop: socket.Read returns bytesRead bytes
\* without a separator; the size check, then ExtractPacket finds no packet;
\* history: whether input was discarded for size and the most bytes that
\* were buffered
SizingRead(bytesRead) ==
    /\ sizing.reads < MaxReads
    /\ bytesRead <= sizing.c.ReadBufferSize - sizing.rightOffset
    /\ LET memoryUsed == sizing.rightOffset + bytesRead - sizing.leftOffset
                             + sizing.receiveBuffer
           source == sizing.rightOffset + bytesRead - sizing.leftOffset
                         + sizing.receiveBuffer
           counted == [sizing EXCEPT !.reads = @ + 1]
       IN  sizing' =
            IF sizing.c.MaxPacketSize > 0 /\ memoryUsed > sizing.c.MaxPacketSize
            THEN [counted EXCEPT !.receiveBuffer = 0, !.leftOffset = 0,
                                 !.rightOffset = 0, !.dropped = TRUE]
            ELSE IF sizing.rightOffset + source
                        > sizing.c.ReadBufferSize - sizing.c.MinReadSpace
            THEN [counted EXCEPT !.receiveBuffer = source, !.leftOffset = 0,
                                 !.rightOffset = 0,
                                 !.most = IF source > @ THEN source ELSE @]
            ELSE [counted EXCEPT !.receiveBuffer = 0,
                                 !.rightOffset = @ + source,
                                 !.most = IF source > @ THEN source ELSE @]
    /\ UNCHANGED notSizingVars

SizingNext == \E n \in ReadSizes : SizingRead(n)

\* ----------------------------------------------------------- StartAndBlock
\* StartAndBlock(services...): one goroutine per service calls Start(), the
\* calling thread blocks in blockThread until an error or a signal arrives,
\* then stops the services.

Services == 1..NumServices

\* how a Start() that does not keep running ends: it returns an error or it
\* panics; the goroutine sends the error, or the panic as an error
StartFailures == {"error", "panic"}

\* a service whose goroutine has not been created yet
NoService == [pc |-> "new", failure |-> "none"]

\* the error the goroutine of service i sends on the error channel
ErrorOf(i) == <<"error of", i>>

BlockingInit ==
    /\ blocking = [service |-> [i \in Services |-> NoService],
                   main |-> "spawn", next |-> 1, result |-> "none",
                   signalled |-> FALSE]

\* the calling thread is in the select of blockThread, ready to receive
Receiving(b) == b.main = "select"

\* the loop of StartAndBlock creates the goroutine of the next service; after
\* the last one the calling thread enters blockThread
BlockingSpawn ==
    /\ blocking.main = "spawn"
    /\ blocking' =
        IF blocking.next > NumServices
        THEN [blocking EXCEPT !.main = "select"]
        ELSE [blocking EXCEPT !.service[blocking.next].pc = "start",
                              !.next = @ + 1]
    /\ UNCHANGED notBlockingVars

\* the goroutine of service i calls Start(), which keeps running
BlockingStartRuns(i) ==
    /\ blocking.service[i].pc = "start"
    /\ blocking' = [blocking EXCEPT !.service[i].pc = "running"]
    /\ UNCHANGED notBlockingVars

\* Start() of service i returns an error or panics, at once or after running
BlockingStartFails(i, failure) ==
    /\ blocking.service[i].pc \in {"start", "running"}
    /\ blocking' = [blocking EXCEPT !.service[i].pc = "failed",
                                    !.service[i].failure = failure]
    /\ UNCHANGED notBlockingVars

\* the goroutine of service i sends its error: select with default on the
\* unbuffered channel. The send goes through if the calling thread is
\* receiving, which then returns the error from blockThread; otherwise the
\* default case is taken
BlockingSend(i) ==
    /\ blocking.service[i].pc = "failed"
    /\ blocking' =
        IF Receiving(blocking)
        THEN [blocking EXCEPT !.service[i].pc = "sent",
                              !.main = "stopping",
                              !.result = ErrorOf(i)]
        ELSE [blocking EXCEPT !.service[i].pc = "dropped"]
    /\ UNCHANGED notBlockingVars

\* SIGINT or SIGTERM arrives while the calling thread is in blockThread
BlockingSignal ==
    /\ blocking.main = "select"
    /\ blocking' = [blocking EXCEPT !.main = "stopping", !.result = "nil",
                                    !.signalled = TRUE]
    /\ UNCHANGED notBlockingVars

\* the deferred function: Stop() of every service, which ends a running
\* Start() with nil; then StartAndBlock returns
BlockingStop ==
    /\ blocking.main = "stopping"
    /\ blocking' = [blocking EXCEPT
            !.main = "returned",
            !.service = [i \in Services |->
                            IF @[i].pc \in {"start", "running"}
                            THEN [@[i] EXCEPT !.pc = "stopped"] ELSE @[i]]]
    /\ UNCHANGED notBlockingVars

BlockingNext ==
    \/ BlockingSpawn
    \/ \E i \in Services : BlockingStartRuns(i)
    \/ \E i \in Services, failure \in StartFailures : BlockingStartFails(i, failure)
    \/ \E i \in Services : BlockingSend(i)
    \/ BlockingSignal
    \/ BlockingStop

\* ------------------------------------------------------- framing protocols
\* the bytes of the buffers and separators: a newline and a letter
ProtocolBytes == {10, 65}

\* the byte sequences of at most n bytes
BytesUpTo(n) == UNION {[1..k -> ProtocolBytes] : k \in 0..n}

\* the separators SplitBySeparator is given: not empty
Separators == BytesUpTo(MaxSeparator) \ {<<>>}

\* a protocol made by SplitBySeparator and a buffer to hand to it
ProtocolGiven(separator, buffer) ==
    [separator |-> separator, buffer |-> buffer, pc |-> "given",
     packet |-> <<>>, rest |-> <<>>, extracted |-> FALSE]

ProtocolInit ==
    \E separator \in Separators, buffer \in BytesUpTo(MaxBuffer) :
        protocol = ProtocolGiven(separator, buffer)

\* separatorFramingProtocol.ExtractPacket(buffer) of the protocol
ProtocolExtractPacket ==
    /\ protocol.pc = "given"
    /\ \E e \in {Cut(protocol.buffer, protocol.separator)} :
        protocol' = [protocol EXCEPT !.pc = "returned",
                                     !.packet = e.packet,
                                     !.rest = e.rest,
                                     !.extracted = e.extracted]
    /\ UNCHANGED notProtocolVars

\* the framing loop after a packet: source = rest, and ExtractPacket again
ProtocolRest ==
    /\ protocol.pc = "returned"
    /\ protocol.extracted
    /\ protocol' = [protocol EXCEPT !.pc = "given", !.buffer = protocol.rest]
    /\ UNCHANGED notProtocolVars

ProtocolNext ==
    \/ ProtocolExtractPacket
    \/ ProtocolRest

\* ------------------------------------------------- length-prefixed framing
\* the bits of a VarInt byte that carry the value, and the continue bit
segmentBits == 127
continueBit == 128

PrefixTypes ==
    {"PrefixVarInt", "PrefixVarLong", "PrefixInt16_BE", "PrefixInt16_LE",
     "PrefixInt32_BE", "PrefixInt32_LE", "PrefixInt64_BE", "PrefixInt64_LE"}

BigEndianTypes == {"PrefixInt16_BE", "PrefixInt32_BE", "PrefixInt64_BE"}

\* LengthPrefixedFraming: the prefixLength it stores for a prefix type
PrefixLength(prefixType) ==
    CASE prefixType \in {"PrefixInt16_BE", "PrefixInt16_LE"} -> 2
      [] prefixType \in {"PrefixInt32_BE", "PrefixInt32_LE"} -> 4
      [] prefixType \in {"PrefixInt64_BE", "PrefixInt64_LE"} -> 8
      [] OTHER -> 0

\* A machine integer is the set of its bits that are 1, bit 0 the lowest;
\* bit 63 of an int64 is its sign.
BitsOf(b) == {i \in 0..7 : (b \div (2 ^ i)) % 2 = 1}

\* x << n in an integer of 32 bits
ShiftLeft32(bits, n) == {i + n : i \in bits} \cap 0..31

\* x << n in a 64-bit integer
ShiftLeft(bits, n) == {i + n : i \in bits} \cap 0..63

\* the number a set of bits below bit 31 stands for
RECURSIVE ValueOf(_)
ValueOf(bits) ==
    IF bits = {} THEN 0
    ELSE LET i == CHOOSE j \in bits : TRUE
         IN  (2 ^ i) + ValueOf(bits \ {i})

\* binary.BigEndian.Uint16/32/64 and binary.LittleEndian.Uint16/32/64
BigEndian(b) ==
    UNION {ShiftLeft(BitsOf(b[j]), 8 * (Len(b) - j)) : j \in 1..Len(b)}

LittleEndian(b) ==
    UNION {ShiftLeft(BitsOf(b[j]), 8 * (j - 1)) : j \in 1..Len(b)}

\* int64(n) >= packetSize for a length n
AtLeast(n, packetSize) ==
    IF 63 \in packetSize THEN TRUE
    ELSE IF packetSize \cap 31..62 # {} THEN FALSE
    ELSE n >= ValueOf(packetSize)

\* the loop of readVarIntPacketSize (limit 32) and readVarLongPacketSize
\* (limit 64); value is an int of 64 bits in the first and an int64 in the
\* second
RECURSIVE VarPacketSizeLoop(_, _, _, _, _)
VarPacketSizeLoop(buffer, value, position, i, limit) ==
    IF i >= Len(buffer)
    THEN [prefixLength |-> 0, packetSize |-> {}, valueRead |-> FALSE]
    ELSE LET currentByte == BitsOf(buffer[i + 1])
             v == value \cup
                    ShiftLeft(currentByte \cap BitsOf(segmentBits), position)
         IN  IF currentByte \cap BitsOf(continueBit) = {}
             THEN [prefixLength |-> i + 1, packetSize |-> v, valueRead |-> TRUE]
             ELSE IF position + 7 >= limit
             THEN [prefixLength |-> 0, packetSize |-> {}, valueRead |-> FALSE]
             ELSE VarPacketSizeLoop(buffer, v, position + 7, i + 1, limit)

readVarIntPacketSize(buffer) == VarPacketSizeLoop(buffer, {}, 0, 0, 32)

readVarLongPacketSize(buffer) == VarPacketSizeLoop(buffer, {}, 0, 0, 64)

\* lengthPrefixedFramingProtocol.ExtractPacket; panics: the slice expression
\* buffer[:packetSize] has a negative bound
LengthPrefixedExtractPacket(prefixType, buffer) ==
    LET notExtracted == [packet |-> <<>>, rest |-> buffer,
                         extracted |-> FALSE, panics |-> FALSE]
        fixed == PrefixLength(prefixType)
        read ==
            CASE prefixType = "PrefixVarInt" -> readVarIntPacketSize(buffer)
              [] prefixType = "PrefixVarLong" -> readVarLongPacketSize(buffer)
              [] prefixType \in BigEndianTypes ->
                    [prefixLength |-> fixed,
                     packetSize |-> BigEndian(Slice(buffer, 0, fixed)),
                     valueRead |-> TRUE]
              [] OTHER ->
                    [prefixLength |-> fixed,
                     packetSize |-> LittleEndian(Slice(buffer, 0, fixed)),
                     valueRead |-> TRUE]
        body == Slice(buffer, read.prefixLength, Len(buffer))
    IN  IF Len(buffer) < fixed THEN notExtracted
        ELSE IF ~read.valueRead THEN notExtracted
        ELSE IF ~AtLeast(Len(body), read.packetSize) THEN notExtracted
        ELSE IF 63 \in read.packetSize
        THEN [packet |-> <<>>, rest |-> <<>>, extracted |-> FALSE,
              panics |-> TRUE]
        ELSE [packet |-> Slice(body, 0, ValueOf(read.packetSize)),
              rest |-> Slice(body, ValueOf(read.packetSize), Len(body)),
              extracted |-> TRUE, panics |-> FALSE]

\* the bytes of the buffers: zero, one, and a byte with every bit set
PrefixBytes == {0, 1, 255}

\* the byte sequences at the ends of a buffer
PrefixedEnds == UNION {[1..k -> PrefixBytes] : k \in 0..MaxEnd}

\* the buffers: a run of zero bytes or of bytes with every bit set between
\* two short byte sequences
PrefixedBuffers ==
    {front \o Repeat(fill, k) \o back :
        front \in PrefixedEnds, back \in PrefixedEnds,
        fill \in {0, 255}, k \in 0..MaxRun}

\* a protocol made by LengthPrefixedFraming and a buffer to hand to it
PrefixedGiven(prefixType, buffer) ==
    [prefixType |-> prefixType, buffer |-> buffer, pc |-> "given",
     packet |-> <<>>, rest |-> <<>>, extracted |-> FALSE]

PrefixedInit ==
    \E prefixType \in PrefixTypes, buffer \in PrefixedBuffers :
        prefixed = PrefixedGiven(prefixType, buffer)

\* lengthPrefixedFramingProtocol.ExtractPacket(buffer) of the protocol
PrefixedExtractPacket ==
    /\ prefixed.pc = "given"
    /\ \E e \in {LengthPrefixedExtractPacket(prefixed.prefixType,
                                              prefixed.buffer)} :
        prefixed' = [prefixed EXCEPT
                        !.pc = IF e.panics THEN "panicked" ELSE "returned",
                        !.packet = e.packet,
                        !.rest = e.rest,
                        !.extracted = e.extracted]
    /\ UNCHANGED notPrefixedVars

\* the framing loop after a packet: source = rest, and ExtractPacket again
PrefixedRest ==
    /\ prefixed.pc = "returned"
    /\ prefixed.extracted
    /\ prefixed' = [prefixed EXCEPT !.pc = "given", !.buffer = prefixed.rest]
    /\ UNCHANGED notPrefixedVars

PrefixedNext ==
    \/ PrefixedExtractPacket
    \/ PrefixedRest

\* ------------------------------------------------------ VarInt and VarLong
\* x >> n on a signed 64-bit integer: the sign is copied into the top bits
ShiftRight(bits, n) ==
    {i - n : i \in {j \in bits : j >= n}} \cup
        (IF 63 \in bits THEN (64 - n)..63 ELSE {})

\* byte(x): the low eight bits, as a number
ByteOf(bits) == ValueOf(bits \cap 0..7)

\* the loop of WriteVarInt and of WriteVarLong: the bytes written
RECURSIVE WriteVarLoop(_)
WriteVarLoop(value) ==
    IF value \ BitsOf(segmentBits) = {}
    THEN <<ByteOf(value)>>
    ELSE <<ByteOf((value \cap BitsOf(segmentBits)) \cup BitsOf(continueBit))>>
            \o WriteVarLoop(ShiftRight(value, 7))

\* the loop of ReadVarInt (limit 32) and of ReadVarLong (limit 64) on the
\* bytes left in the reader
RECURSIVE ReadVarLoop(_, _, _, _)
ReadVarLoop(reader, value, position, limit) ==
    IF reader = <<>>
    THEN [value |-> {}, err |-> "EOF", reader |-> reader]
    ELSE LET currentByte == BitsOf(Head(reader))
             v == value \cup
                    ShiftLeft(currentByte \cap BitsOf(segmentBits), position)
         IN  IF currentByte \cap BitsOf(continueBit) = {}
             THEN [value |-> v, err |-> "nil", reader |-> Tail(reader)]
             ELSE IF position + 7 >= limit
             THEN [value |-> {}, err |-> "invalid size", reader |-> Tail(reader)]
             ELSE ReadVarLoop(Tail(reader), v, position + 7, limit)

ReadVarInt(reader) == ReadVarLoop(reader, {}, 0, 32)

ReadVarLong(reader) == ReadVarLoop(reader, {}, 0, 64)

\* the numbers from 0 up to 2^width - 1 that are written: every pattern of
\* MaxPattern bits at every position, and those whose low bits are all set
VarNumbers(width) ==
    {{i + k : i \in pattern} \cap 0..(width - 1) :
        pattern \in SUBSET (0..(MaxPattern - 1)), k \in 0..(width - 1)}
        \cup {0..(k - 1) : k \in 0..width}

\* an empty bytes.Buffer
VarintInit ==
    varint = [kind |-> "VarInt", value |-> {}, pc |-> "new", buffer |-> <<>>,
              written |-> <<>>, more |-> 0, result |-> {}, err |-> "nil"]

\* WriteVarInt of a number below 2^31 or WriteVarLong of a number below
\* 2^63 into the buffer
VarintWrite(kind) ==
    /\ varint.pc = "new"
    /\ \E value \in VarNumbers(IF kind = "VarInt" THEN 31 ELSE 63) :
       \E bytes \in {WriteVarLoop(value)} :
        varint' = [varint EXCEPT !.kind = kind,
                                 !.value = value,
                                 !.pc = "written",
                                 !.buffer = @ \o bytes,
                                 !.written = bytes]
    /\ UNCHANGED notVarintVars

\* WriteByte of another value into the buffer after the number
VarintWriteByte(b) ==
    /\ varint.pc = "written"
    /\ varint.more = 0
    /\ varint' = [varint EXCEPT !.buffer = @ \o <<b>>, !.more = 1]
    /\ UNCHANGED notVarintVars

\* ReadVarInt / ReadVarLong from the buffer
VarintRead ==
    /\ varint.pc = "written"
    /\ \E r \in {IF varint.kind = "VarInt" THEN ReadVarInt(varint.buffer)
                  ELSE ReadVarLong(varint.buffer)} :
        varint' = [varint EXCEPT !.pc = "read",
                                 !.buffer = r.reader,
                                 !.result = r.value,
                                 !.err = r.err]
    /\ UNCHANGED notVarintVars

VarintNext ==
    \/ \E kind \in {"VarInt", "VarLong"} : VarintWrite(kind)
    \/ \E b \in {1, 255} : VarintWriteByte(b)
    \/ VarintRead

\* ------------------------------------------------- end of the framing loop
\* the errors the wrapped reader fails with while the socket is open: the
\* peer closed or reset the connection, or a deadline passed
OpenReadErrors == {ErrEOF, ErrConnReset, ErrTimeout}

\* the socket of the loop before anything failed, nothing put into the pools
NoTeardown ==
    [closed |-> FALSE, err |-> NoError.name, readBufferPuts |-> 0,
     receiveBufferPuts |-> 0, continued |-> FALSE]

\* Socket.IsClosed(): Close() has run on the socket
IsClosed(socket) == socket.closed

\* a deferred function that leaves the spill buffer out of its pool
DeferredKeepsSpill(held, buffer, socket) ==
    [receiveBuffer |-> buffer,
     socket |-> [socket EXCEPT !.readBufferPuts = @ + 1]]

\* the deferred function of the handler: readBufferPool.Put(readBuffer) and,
\* if receiveBuffer != nil, Reset() and receiveBufferPool.Put(receiveBuffer)
Deferred(held, buffer, socket) ==
    [receiveBuffer |-> IF held THEN <<>> ELSE buffer,
     socket |-> [socket EXCEPT !.readBufferPuts = @ + 1,
                               !.receiveBufferPuts = IF held THEN @ + 1 ELSE @]]

TeardownInit == teardown = NoTeardown

\* Socket.Close() called from outside the loop
TeardownClose ==
    /\ fpc \in {"read", "error"}
    /\ ~teardown.closed
    /\ teardown' = [teardown EXCEPT !.closed = TRUE]
    /\ UNCHANGED <<framingVars, notLoopVars>>

\* socket.Read(readBuffer[rightOffset:]) returns an error, the connection
\* having handed over no bytes with it: Socket.Read closes the socket and
\* returns io.EOF when the error of the reader is of the broken-pipe class,
\* and the error itself otherwise; a closed connection fails with "use of
\* closed network connection"; the peer's EOF comes after its bytes
TeardownReadError(e) ==
    /\ fpc = "read"
    /\ e \in (IF teardown.closed THEN {ErrNetClosed} ELSE OpenReadErrors)
    /\ e = ErrEOF => stream = <<>>
    /\ teardown' =
          [teardown EXCEPT !.closed = @ \/ isBrokenPipe(e),
                           !.err = IF isBrokenPipe(e) THEN ErrEOF.name ELSE e.name]
    /\ fpc' = "error"
    /\ UNCHANGED <<cfg, frames, stream, readBuffer, receiveBuffer, receiveHeld,
                   leftOffset, rightOffset, delivered, path>>
    /\ UNCHANGED notLoopVars

\* err != nil and socket.IsClosed(): break, and the deferred function runs
TeardownBreak ==
    /\ fpc = "error"
    /\ IsClosed(teardown)
    /\ fpc' = "done"
    /\ LET d == Deferred(receiveHeld, receiveBuffer, teardown)
       IN  /\ receiveBuffer' = d.receiveBuffer
           /\ teardown' = d.socket
    /\ UNCHANGED <<cfg, frames, stream, readBuffer, receiveHeld, leftOffset,
                   rightOffset, delivered, path>>
    /\ UNCHANGED notLoopVars

\* err != nil and the socket is not closed: continue
TeardownContinue ==
    /\ fpc = "error"
    /\ ~IsClosed(teardown)
    /\ fpc' = "read"
    /\ teardown' = [teardown EXCEPT !.continued = TRUE]
    /\ UNCHANGED <<cfg, frames, stream, readBuffer, receiveBuffer, receiveHeld,
                   leftOffset, rightOffset, delivered, path>>
    /\ UNCHANGED notLoopVars

\* the framing loop on a socket that is open until it fails or is closed
TeardownNext ==
    \/ \E n \in 1..cfg.ReadBufferSize : ~teardown.closed /\ FramingRead(n)
    \/ \E n \in 1..cfg.ReadBufferSize : ~teardown.closed /\ FramingReadTooBig(n)
    \/ TeardownClose
    \/ \E e \in Errors : TeardownReadError(e)
    \/ TeardownBreak
    \/ TeardownContinue

\* ------------------------------------------------- the list on its own
\* socketsList with an unlimited maxSize, used as housekeeping and the
\* accept loop use it, with handlers that close their socket and return.
Nodes == 1..MaxNodes

\* the sockets linked from socket on through next, at most n of them
RECURSIVE Walk(_, _, _)
Walk(w, socket, n) ==
    IF socket = 0 \/ n = 0 THEN <<>>
    ELSE <<socket>> \o Walk(w, w.sock[socket].next, n - 1)

\* the elements of a sequence that are not in a set, in their order
RECURSIVE Without(_, _)
Without(seq, set) ==
    IF seq = <<>> THEN <<>>
    ELSE IF Head(seq) \in set THEN Without(Tail(seq), set)
    ELSE <<Head(seq)>> \o Without(Tail(seq), set)

\* what pool.Get() may return: an object put back, or a newly allocated one
ChainGetChoices(w) ==
    w.pool \cup (IF w.allocs < MaxNodes THEN {w.allocs + 1} ELSE {})

\* newSocketsList: no socket, an empty pool
NoChain ==
    [w |-> [sock |-> [s \in Nodes |-> ZeroSocket],
            conn |-> [c \in 1..MaxNews |-> "none"],
            pool |-> {}, allocs |-> 0,
            pooling |-> [peak |-> 0, dropped |-> FALSE, twice |-> FALSE],
            head |-> 0, tail |-> 0, size |-> 0,
            ref |-> [c \in Conns |-> NoRef], recycled |-> {}],
     news |-> 0,
     members |-> <<>>,
     last |-> [op |-> "none"]]

ChainInit == chain = NoChain

\* sockets.New(connection) with pool.Get() returning s
ChainNew(s) ==
    /\ chain.news < MaxNews
    /\ s \in ChainGetChoices(chain.w)
    /\ LET c == chain.news + 1
           r == New([chain.w EXCEPT !.conn[c] = "open"], s, c)
       IN  chain' = [w |-> r.w,
                     news |-> c,
                     members |-> IF r.socket = 0 THEN chain.members
                                 ELSE Append(chain.members, r.socket),
                     last |-> [op |-> "New"]]
    /\ UNCHANGED notChainVars

\* the handler of a listed socket calls socket.Close() and goes on
ChainClose(s) ==
    /\ \E i \in 1..Len(chain.members) : chain.members[i] = s
    /\ OnceRuns(chain.w.sock[s].closeOnce)
    /\ chain' = [chain EXCEPT !.w = closeSocket(@, s), !.last = [op |-> "Close"]]
    /\ UNCHANGED notChainVars

\* the handler of a listed socket returns and its goroutine calls
\* socket.Close() and socket.recycle()
ChainHandlerReturn(s) ==
    /\ \E i \in 1..Len(chain.members) : chain.members[i] = s
    /\ ~chain.w.sock[s].recyclable
    /\ chain' = [chain EXCEPT !.w = recycle(closeSocket(@, s), s),
                              !.last = [op |-> "recycle"]]
    /\ UNCHANGED notChainVars

\* sockets.Cleanup(); history: the sockets it found listed, those of them
\* that were recyclable or closed, the size it found and the pool it found
ChainCleanup ==
    /\ LET found == Walk(chain.w, chain.w.head, MaxNodes + 1)
           listed == {found[i] : i \in 1..Len(found)}
           flagged == {s \in listed : chain.w.sock[s].recyclable}
       IN  chain' = [chain EXCEPT
                        !.w = Cleanup(@),
                        !.members = Without(@, flagged),
                        !.last = [op |-> "Cleanup", found |-> found,
                                  flagged |-> flagged,
                                  closed |-> {s \in listed :
                                      chain.w.sock[s].closeOnce = "done"},
                                  n |-> chain.w.size,
                                  pool |-> chain.w.pool]]
    /\ UNCHANGED notChainVars

\* sockets.Reset()
ChainReset ==
    /\ chain.w.head # 0
    /\ chain' = [chain EXCEPT !.w = Reset(@), !.members = <<>>,
                              !.last = [op |-> "Reset"]]
    /\ UNCHANGED notChainVars

ChainNext ==
    \/ \E s \in Nodes : ChainNew(s)
    \/ \E s \in Nodes : ChainClose(s)
    \/ \E s \in Nodes : ChainHandlerReturn(s)
    \/ ChainCleanup
    \/ ChainReset

\* Reset() and a New() of the accept loop running at once: Reset holds the
\* lock of the list from its loop to its return, newSocket takes none and
\* registerSocket waits for it.

\* no Reset is inside its critical section
ChainUnlocked == chain.last.op \notin {"Resetting", "Registering"}

\* Reset() has locked the list and run its loop
ChainResetLoop ==
    /\ ChainUnlocked
    /\ chain.w.head # 0
    /\ chain' = [chain EXCEPT !.w = ResetLoop(@, @.head),
                              !.last = [op |-> "Resetting", got |-> 0]]
    /\ UNCHANGED notChainVars

\* newSocket of a New() called while Reset() is in its critical section:
\* pool.Get() returns s, init sets the connection
ChainNewSocket(s) ==
    /\ chain.last.op = "Resetting"
    /\ chain.last.got = 0
    /\ chain.news < MaxNews
    /\ s \in ChainGetChoices(chain.w)
    /\ LET c == chain.news + 1
       IN  chain' = [chain EXCEPT
                        !.w = newSocket([@ EXCEPT !.conn[c] = "open"], s, c),
                        !.news = c,
                        !.last.got = s]
    /\ UNCHANGED notChainVars

\* Reset() clears head, tail and size, and unlocks
ChainResetReturn ==
    /\ chain.last.op = "Resetting"
    /\ chain' = [chain EXCEPT
                    !.w = [@ EXCEPT !.head = 0, !.tail = 0, !.size = 0],
                    !.members = <<>>,
                    !.last = IF chain.last.got = 0 THEN [op |-> "Reset"]
                             ELSE [op |-> "Registering", got |-> chain.last.got]]
    /\ UNCHANGED notChainVars

\* registerSocket of the New() that waited for the lock
ChainRegisterSocket ==
    /\ chain.last.op = "Registering"
    /\ chain' = [chain EXCEPT !.w = registerSocket(@, chain.last.got),
                              !.members = Append(@, chain.last.got),
                              !.last = [op |-> "New"]]
    /\ UNCHANGED notChainVars

ResettingNext ==
    \/ \E s \in Nodes : ChainUnlocked /\ ChainNew(s)
    \/ \E s \in Nodes : ChainUnlocked /\ ChainHandlerReturn(s)
    \/ ChainUnlocked /\ ChainCleanup
    \/ ChainResetLoop
    \/ \E s \in Nodes : ChainNewSocket(s)
    \/ ChainResetReturn
    \/ ChainRegisterSocket

\* ------------------------------------------------------- metered counters
\* The meteredReader and the meteredWriter of one socket: handlers call Read
\* and Write while the housekeeping goroutine calls Update, each atomic
\* operation a step of its own.

\* the meteredReader and the meteredWriter of a Socket
Directions == {"reader", "writer"}

\* the counters after reset()
ZeroMeter == [total |-> 0, current |-> 0, rate |-> 0]

\* a swap that reads the counter and leaves it as it was
SwapKeeps(m, new) == [old |-> m.current, meter |-> m]

\* atomic.SwapUint64(&current, new): the old value, and the counter after it
SwapUint64(m, new) == [old |-> m.current, meter |-> [m EXCEPT !.current = new]]

\* uint64(float64(current) / interval.Seconds()): the quotient, truncated
RateOf(current, interval) == current \div interval

\* nobody is inside Read, Write or Update; nothing was transferred
NoCounter ==
    [m |-> [d \in Directions |-> ZeroMeter],
     io |-> [t \in Tasks |-> [pc |-> "idle", d |-> "reader", n |-> 0]],
     update |-> [pc |-> "idle", d |-> "reader", current |-> 0],
     transferred |-> [d \in Directions |-> 0],
     returned |-> [d \in Directions |-> 0],
     swapped |-> [d \in Directions |-> 0],
     transfers |-> 0, updates |-> 0, interval |-> 1]

CounterInit ==
    counter \in {[NoCounter EXCEPT !.interval = i] : i \in TickIntervals}

\* Read(b) or Write(b): the wrapped reader or writer transfers n bytes
CounterTransfer(t, d, n) ==
    /\ counter.io[t].pc = "idle"
    /\ counter.transfers < MaxTransfers
    /\ counter' = [counter EXCEPT
            !.io[t] = [pc |-> "counting", d |-> d, n |-> n],
            !.transferred[d] = @ + n,
            !.transfers = @ + 1]
    /\ UNCHANGED notCounterVars

\* Read(b) or Write(b): add n to current if n > 0, and return
CounterCount(t) ==
    /\ counter.io[t].pc = "counting"
    /\ LET d == counter.io[t].d
           n == counter.io[t].n
       IN  counter' = [counter EXCEPT
                !.io[t].pc = "idle",
                !.m[d].current = IF n > 0 THEN @ + n ELSE @]
    /\ UNCHANGED notCounterVars

\* Update(interval): swap current with 0
CounterSwap ==
    /\ counter.update.pc = "idle"
    /\ counter.updates < MaxUpdates
    /\ LET d == counter.update.d
           swap == SwapUint64(counter.m[d], 0)
       IN  counter' = [counter EXCEPT
                !.m[d] = swap.meter,
                !.update.pc = "swapped",
                !.update.current = swap.old,
                !.swapped[d] = swap.old]
    /\ UNCHANGED notCounterVars

\* Update(interval): store the rate
CounterStoreRate ==
    /\ counter.update.pc = "swapped"
    /\ counter' = [counter EXCEPT
            !.m[counter.update.d].rate =
                RateOf(counter.update.current, counter.interval),
            !.update.pc = "stored"]
    /\ UNCHANGED notCounterVars

\* Update(interval): add to total and return what was swapped out;
\* Socket.updateMetrics updates the reader, then the writer
CounterAddTotal ==
    /\ counter.update.pc = "stored"
    /\ LET d == counter.update.d
       IN  counter' = [counter EXCEPT
                !.m[d].total = @ + counter.update.current,
                !.returned[d] = @ + counter.update.current,
                !.update = [pc |-> "idle",
                            d |-> IF d = "reader" THEN "writer" ELSE "reader",
                            current |-> 0],
                !.updates = IF d = "writer" THEN @ + 1 ELSE @]
    /\ UNCHANGED notCounterVars

CounterNext ==
    \/ \E t \in Tasks, d \in Directions, n \in 0..MaxChunk :
            CounterTransfer(t, d, n)
    \/ \E t \in Tasks : CounterCount(t)
    \/ CounterSwap
    \/ CounterStoreRate
    \/ CounterAddTotal

\* -------------------------------------------------------- housekeeping job
\* One job, of housekeeping_job.go or of background_job.go: a caller starts
\* and stops it while the goroutines it spawned tick.

\* housekeeping_job.go runs the tick in a closure that unlocks when it
\* returns; background_job.go locks and unlocks in the loop body
JobKinds == {"housekeeping", "background"}

\* the goroutines Start() spawns, in the order of their spawning
Goroutines == 1..MaxJobCalls

\* a goroutine that was not spawned, with the ticker it has made
NoGoroutine == [pc |-> "none", tickerOn |-> FALSE]

\* newHousekeepingJob: not running, no ticker (0), the mutex free (0);
\* fresh: the ticker field was written without the mutex and the writer has
\* not released it since, before: what the field held until then
NoJob ==
    [kind |-> "housekeeping", m |-> 0, running |-> FALSE, ticker |-> 0,
     fresh |-> FALSE, before |-> 0,
     g |-> [i \in Goroutines |-> NoGoroutine], spawned |-> 0,
     caller |-> [op |-> "none", pc |-> "idle"], calls |-> 0, ticks |-> 0,
     stopped |-> FALSE]

JobInit == job \in {[NoJob EXCEPT !.kind = k] : k \in JobKinds}

\* what a read of the ticker field under the mutex may see: the field, or
\* what it held before a write the reader is not ordered after
TickerViews(j) == IF j.fresh THEN {j.ticker, j.before} ELSE {j.ticker}

\* Unlock() by goroutine i: what it wrote is ordered before the next Lock()
Released(j, i) == [j EXCEPT !.m = 0, !.fresh = IF j.ticker = i THEN FALSE ELSE @]

\* somebody calls Start() or Stop()
JobCall(op) ==
    /\ job.caller.pc = "idle"
    /\ job.calls < MaxJobCalls
    /\ job' = [job EXCEPT !.caller = [op |-> op, pc |-> "lock"],
                          !.calls = @ + 1]
    /\ UNCHANGED notJobVars

\* Start() with the mutex: nothing if running, else spawn the goroutine
JobStart ==
    /\ job.caller.pc = "lock"
    /\ job.caller.op = "Start"
    /\ job.m = 0
    /\ job' =
        IF job.running
        THEN [job EXCEPT !.caller.pc = "idle"]
        ELSE [job EXCEPT !.running = TRUE,
                         !.stopped = FALSE,
                         !.spawned = @ + 1,
                         !.g[job.spawned + 1].pc = "spawned",
                         !.caller.pc = "idle"]
    /\ UNCHANGED notJobVars

\* Stop() with the mutex: nothing if not running, else clear running and
\* stop the ticker; on a nil ticker Stop() panics
JobStop ==
    /\ job.caller.pc = "lock"
    /\ job.caller.op = "Stop"
    /\ job.m = 0
    /\ IF ~job.running
       THEN job' = [job EXCEPT !.caller.pc = "idle", !.stopped = TRUE]
       ELSE \E seen \in TickerViews(job) :
                job' =
                    IF seen = 0
                    THEN [job EXCEPT !.running = FALSE,
                                     !.caller.pc = "panicked"]
                    ELSE [job EXCEPT !.running = FALSE,
                                     !.g[seen].tickerOn = FALSE,
                                     !.stopped = TRUE,
                                     !.caller.pc = "idle"]
    /\ UNCHANGED notJobVars

\* the goroutine: h.ticker = time.NewTicker(h.interval), without the mutex
JobNewTicker(i) ==
    /\ job.g[i].pc = "spawned"
    /\ job' = [job EXCEPT !.ticker = i,
                          !.before = job.ticker,
                          !.fresh = TRUE,
                          !.g[i] = [pc |-> "ranging", tickerOn |-> TRUE]]
    /\ UNCHANGED notJobVars

\* the goroutine: the channel of its ticker delivers a tick
JobTick(i) ==
    /\ job.g[i].pc = "ranging"
    /\ job.g[i].tickerOn
    /\ job.ticks < MaxTicks
    /\ job' = [job EXCEPT !.g[i].pc = "tick", !.ticks = @ + 1]
    /\ UNCHANGED notJobVars

\* the goroutine: Lock() and the running check; a job that is not running
\* ends the loop, in housekeeping_job.go after the deferred Unlock(), in
\* background_job.go by break without Unlock()
JobEnter(i) ==
    /\ job.g[i].pc = "tick"
    /\ job.m = 0
    /\ job' =
        IF job.running
        THEN [job EXCEPT !.m = i, !.g[i].pc = "fn"]
        ELSE IF job.kind = "housekeeping"
        THEN [Released(job, i) EXCEPT !.g[i].pc = "exited"]
        ELSE [job EXCEPT !.m = i, !.g[i].pc = "exited"]
    /\ UNCHANGED notJobVars

\* the goroutine: fn() returns and the mutex is unlocked, or fn() panics:
\* housekeeping_job.go unlocks in the deferred call of the closure,
\* background_job.go does not unlock; recover() gets the panic
JobFn(i, panics) ==
    /\ job.g[i].pc = "fn"
    /\ job' =
        IF ~panics
        THEN [Released(job, i) EXCEPT !.g[i].pc = "ranging"]
        ELSE IF job.kind = "housekeeping"
        THEN [Released(job, i) EXCEPT !.g[i].pc = "recovered"]
        ELSE [job EXCEPT !.g[i].pc = "recovered"]
    /\ UNCHANGED notJobVars

\* the goroutine: panicHandler(err), which is Server.housekeepingJobPanic:
\* Abort(err), Server.Stop() and from there Stop() of the job
JobPanicHandler(i) ==
    /\ job.g[i].pc = "recovered"
    /\ job' = [job EXCEPT !.g[i].pc = "stopping"]
    /\ UNCHANGED notJobVars

\* the goroutine inside the panic handler: Stop() of the job with the mutex
JobHandlerStop(i) ==
    /\ job.g[i].pc = "stopping"
    /\ job.m = 0
    /\ job' =
        IF ~job.running
        THEN [job EXCEPT !.g[i].pc = "exited"]
        ELSE [job EXCEPT !.running = FALSE,
                         !.g[job.ticker].tickerOn = FALSE,
                         !.stopped = TRUE,
                         !.g[i].pc = "exited"]
    /\ UNCHANGED notJobVars

JobNext ==
    \/ \E op \in {"Start", "Stop"} : JobCall(op)
    \/ JobStart
    \/ JobStop
    \/ \E i \in Goroutines : JobNewTicker(i)
    \/ \E i \in Goroutines : JobTick(i)
    \/ \E i \in Goroutines : JobEnter(i)
    \/ \E i \in Goroutines, panics \in BOOLEAN : JobFn(i, panics)
    \/ \E i \in Goroutines : JobPanicHandler(i)
    \/ \E i \in Goroutines : JobHandlerStop(i)

\* ------------------------------------------------ references of one socket
\* NewSocketRef called several times on one Socket, then recycle(), with the
\* Socket of part_009, which has one recycle handler, or the Socket of
\* sockets_list.go, which has a list of them.

\* the SocketRefs that can be made
Refs == 1..MaxRefs

\* the two Sockets: the field recycleHandler, or the slice recycleHandlers
SocketVersions == {"recycleHandler", "recycleHandlers"}

\* a Socket after init() and no SocketRef made: attached[r] says that the
\* pointer of SocketRef r is not nil; handlers are the registered
\* onRecycle methods, named by their SocketRef
NoDetach ==
    [version |-> "recycleHandlers", handlers |-> <<>>, recyclable |-> FALSE,
     made |-> {}, attached |-> {}, ops |-> 0,
     result |-> [op |-> "none", ref |-> 0, err |-> "none", recycled |-> FALSE]]

DetachInit ==
    detach \in {[NoDetach EXCEPT !.version = v] : v \in SocketVersions}

\* Socket.onRecycle(handler) of part_009 sets the handler; Socket.OnRecycle
\* of sockets_list.go appends it
Registered(version, handlers, r) ==
    IF version = "recycleHandler" THEN <<r>> ELSE Append(handlers, r)

\* recycle(): every registered handler runs, and SocketRef.onRecycle sets
\* the pointer of its SocketRef to nil
HandlersRun(attached, handlers) ==
    attached \ {handlers[i] : i \in 1..Len(handlers)}

\* NewSocketRef(s) while the Socket is in use
DetachNewSocketRef(r) ==
    /\ r \notin detach.made
    /\ ~detach.recyclable
    /\ detach' = [detach EXCEPT
            !.made = @ \cup {r},
            !.attached = @ \cup {r},
            !.handlers = Registered(detach.version, @, r)]
    /\ UNCHANGED notDetachVars

\* Socket.recycle(): the handlers, then the recyclable flag
DetachRecycle ==
    /\ ~detach.recyclable
    /\ detach' = [detach EXCEPT
            !.attached = HandlersRun(@, detach.handlers),
            !.recyclable = TRUE]
    /\ UNCHANGED notDetachVars

\* Read, Write or Close through SocketRef r: io.EOF if the pointer is nil,
\* else what the Socket returns
DetachRefOp(r, op) ==
    /\ r \in detach.made
    /\ detach.ops < MaxRefOps
    /\ detach' = [detach EXCEPT
            !.ops = @ + 1,
            !.result = [op |-> op, ref |-> r,
                        err |-> IF r \in detach.attached THEN "forwarded"
                                ELSE "io.EOF",
                        recycled |-> detach.recyclable]]
    /\ UNCHANGED notDetachVars

DetachNext ==
    \/ \E r \in Refs : DetachNewSocketRef(r)
    \/ DetachRecycle
    \/ \E r \in Refs, op \in {"Read", "Write", "Close"} : DetachRefOp(r, op)

\* ------------------------------------ Close with handlers that use the socket
\* One goroutine calls Close() on a Socket whose close handlers call Close(),
\* OnClose(), Read() or Write() on that Socket.

\* what a close handler does with the Socket it was registered on
HandlerUses == {"nothing", "Close", "OnClose", "Read", "Write"}

\* a Socket in use with no close handler: the closeOnce, the handlers by
\* what they do, whether closeHandlersMutex is read-locked, where the
\* goroutine is, the handler the loop is at and how often the connection
\* was closed
NoClosing ==
    [closeOnce |-> "fresh", closeHandlers |-> <<>>, rlocked |-> FALSE,
     pc |-> "idle", i |-> 0, connCloses |-> 0, waitsFor |-> "none"]

ClosingInit == closing = NoClosing

\* OnClose(handler) before the Socket is closed
ClosingOnClose(use) ==
    /\ closing.pc = "idle"
    /\ Len(closing.closeHandlers) < MaxHandlers
    /\ closing' = [closing EXCEPT !.closeHandlers = Append(@, use)]
    /\ UNCHANGED notClosingVars

\* Close(): closeOnce.Do runs the function: conn.Close(), RLock(), the loop
ClosingClose ==
    /\ closing.pc = "idle"
    /\ OnceRuns(closing.closeOnce)
    /\ closing' = [closing EXCEPT
            !.closeOnce = "running",
            !.connCloses = @ + 1,
            !.rlocked = TRUE,
            !.pc = "handlers",
            !.i = FirstHandler(closing.closeHandlers)]
    /\ UNCHANGED notClosingVars

\* Close() called inside the function of closeOnce.Do by the goroutine that
\* runs it: Do waits for the function to return
ReentersOnce(c) ==
    IF c.closeOnce = "running"
    THEN [c EXCEPT !.pc = "blocked", !.waitsFor = "closeOnce"]
    ELSE [c EXCEPT !.i = NextHandler(c.i)]

\* one iteration of the loop: handler(r), and what the handler calls; err is
\* what the wrapped reader or writer returns to a Read or Write
ClosingHandler(err) ==
    /\ closing.pc = "handlers"
    /\ closing.i >= 1
    /\ LET use == closing.closeHandlers[closing.i]
       IN  closing' =
            IF use = "Close"
            THEN ReentersOnce(closing)
            ELSE IF use = "OnClose"
            THEN IF closing.rlocked
                 THEN [closing EXCEPT !.pc = "blocked",
                                      !.waitsFor = "closeHandlersMutex"]
                 ELSE [closing EXCEPT !.closeHandlers = Append(@, "nothing"),
                                      !.i = NextHandler(closing.i)]
            ELSE IF use \in {"Read", "Write"} /\ isBrokenPipe(err)
            THEN ReentersOnce(closing)
            ELSE [closing EXCEPT !.i = NextHandler(closing.i)]
    /\ UNCHANGED notClosingVars

\* the loop is over: RUnlock(), the function returns and Close() returns
ClosingDone ==
    /\ closing.pc = "handlers"
    /\ closing.i < 1
    /\ closing' = [closing EXCEPT !.closeOnce = "done", !.rlocked = FALSE,
                                  !.pc = "returned"]
    /\ UNCHANGED notClosingVars

ClosingNext ==
    \/ \E use \in HandlerUses : ClosingOnClose(use)
    \/ ClosingClose
    \/ \E err \in Errors \cup {NoError} : ClosingHandler(err)
    \/ ClosingDone

\* ---------------------------------------------------------- specifications
\* a Socket nobody uses, in the specifications that do not run one
SocketIdle == SocketInit /\ sFault = ErrOther

\* a server that was never started, with the default configuration
ServerIdle == ServerInit /\ maxSize = Unlimited

\* a Server of server.go nobody calls, with the default configuration
LifecycleIdle ==
    /\ LifecycleInit
    /\ ~lifecycle.acceptErrorHandler
    /\ lifecycle.maxSize = Unlimited

\* metered sockets nobody uses, with the default tick interval
MeterIdle == MeterInit /\ meter.interval = 1

\* a server made without a configuration that no client connects to
AdmissionIdle == AdmissionInit /\ admission.config = NilConfig

\* a framing loop without configuration that has not read yet
SizingIdle == SizingInit /\ sizing.provided = NilFramingConfig

\* the newline protocol nobody hands a buffer to
ProtocolIdle == protocol = ProtocolGiven(Separator, <<>>)

\* the VarInt protocol nobody hands a buffer to
PrefixedIdle == prefixed = PrefixedGiven("PrefixVarInt", <<>>)

\* a buffer nothing is written into
VarintIdle == VarintInit

\* a framing loop whose socket neither fails nor is closed from outside
TeardownIdle == TeardownInit

\* a sockets list nobody uses
ChainIdle == ChainInit

\* metered counters nobody uses, with the default tick interval
CounterIdle == counter = NoCounter

\* a housekeeping job nobody started
JobIdle == job = NoJob

\* a Socket for which no SocketRef is made
DetachIdle == detach = NoDetach

\* a Socket nobody closes
ClosingIdle == ClosingInit

\* the parts with a specification of their own, parked
PartsIdle ==
    /\ LifecycleIdle /\ MeterIdle /\ AdmissionIdle /\ SizingIdle
    /\ BlockingInit /\ ProtocolIdle
    /\ PrefixedIdle
    /\ VarintIdle
    /\ TeardownIdle
    /\ ChainIdle
    /\ CounterIdle
    /\ JobIdle
    /\ DetachIdle
    /\ ClosingIdle

\* a connection about to be framed; no other part of the library takes part
InitFraming == FramingInit /\ SocketIdle /\ ServerIdle /\ PartsIdle

\* the framing loop of one connection
SpecFraming ==
    /\ InitFraming
    /\ [][FramingNext]_vars

\* a parked framing loop, in the specifications that do not run it
FramingIdle ==
    /\ cfg = [ReadBufferSize |-> 6, MaxPacketSize |-> 64, MinReadSpace |-> 2]
    /\ frames = <<>>
    /\ stream = <<>>
    /\ readBuffer = <<>>
    /\ receiveBuffer = <<>>
    /\ receiveHeld = FALSE
    /\ leftOffset = 0
    /\ rightOffset = 0
    /\ delivered = <<>>
    /\ path = {}
    /\ fpc = "done"

\* a connected Socket with no close handler yet
InitSocket == SocketInit /\ FramingIdle /\ ServerIdle /\ PartsIdle

\* one Socket used by NumTasks tasks
SpecSocket ==
    /\ InitSocket
    /\ [][SocketNext]_vars

\* a new server with its empty sockets list
InitServer == ServerInit /\ FramingIdle /\ SocketIdle /\ PartsIdle

\* the sockets list used without a server, with goroutines
SpecList ==
    /\ InitServer
    /\ [][ListNext]_vars

\* the sockets list used without a server, with goroutines that make and use
\* SocketRefs
SpecRef ==
    /\ InitServer
    /\ [][RefNext]_vars

\* the server with its sockets list, handler goroutines and SocketRefs
Spec ==
    /\ InitServer
    /\ [][ServerNext]_vars

\* a new Server of server.go; no other part of the library takes part
InitLifecycle ==
    /\ LifecycleInit
    /\ FramingIdle /\ SocketIdle /\ ServerIdle
    /\ MeterIdle /\ AdmissionIdle /\ SizingIdle /\ BlockingInit
    /\ ProtocolIdle
    /\ PrefixedIdle
    /\ VarintIdle
    /\ TeardownIdle
    /\ ChainIdle
    /\ CounterIdle
    /\ JobIdle
    /\ DetachIdle
    /\ ClosingIdle

\* tasks calling ForkingStrategy, Listener, Start and Stop on one Server
SpecLifecycle ==
    /\ InitLifecycle
    /\ [][LifecycleNext]_vars

\* a started Server of server.go; no other part of the library takes part
InitStarted ==
    /\ StartedInit
    /\ FramingIdle /\ SocketIdle /\ ServerIdle
    /\ MeterIdle /\ AdmissionIdle /\ SizingIdle /\ BlockingInit
    /\ ProtocolIdle
    /\ PrefixedIdle
    /\ VarintIdle
    /\ TeardownIdle
    /\ ChainIdle
    /\ CounterIdle
    /\ JobIdle
    /\ DetachIdle
    /\ ClosingIdle

\* the accept loop of a started Server and tasks calling Stop
SpecStarted ==
    /\ InitStarted
    /\ [][StartedNext]_vars

\* a server without connections before the first tick
InitMetrics ==
    /\ MeterInit
    /\ FramingIdle /\ SocketIdle /\ ServerIdle
    /\ LifecycleIdle /\ AdmissionIdle /\ SizingIdle /\ BlockingInit
    /\ ProtocolIdle
    /\ PrefixedIdle
    /\ VarintIdle
    /\ TeardownIdle
    /\ ChainIdle
    /\ CounterIdle
    /\ JobIdle
    /\ DetachIdle
    /\ ClosingIdle

\* handlers doing I/O and returning while the housekeeping job ticks
SpecMetrics ==
    /\ InitMetrics
    /\ [][MeterNext]_vars

\* a server just made by NewServer
InitAdmission ==
    /\ AdmissionInit
    /\ FramingIdle /\ SocketIdle /\ ServerIdle
    /\ LifecycleIdle /\ MeterIdle /\ SizingIdle /\ BlockingInit
    /\ ProtocolIdle
    /\ PrefixedIdle
    /\ VarintIdle
    /\ TeardownIdle
    /\ ChainIdle
    /\ CounterIdle
    /\ JobIdle
    /\ DetachIdle
    /\ ClosingIdle

\* a configured server admitting or refusing the connections it accepts
SpecAdmission ==
    /\ InitAdmission
    /\ [][AdmissionNext]_vars

\* a framing loop about to read
InitSizing ==
    /\ SizingInit
    /\ FramingIdle /\ SocketIdle /\ ServerIdle
    /\ LifecycleIdle /\ MeterIdle /\ AdmissionIdle /\ BlockingInit
    /\ ProtocolIdle
    /\ PrefixedIdle
    /\ VarintIdle
    /\ TeardownIdle
    /\ ChainIdle
    /\ CounterIdle
    /\ JobIdle
    /\ DetachIdle
    /\ ClosingIdle

\* the framing loop fed a frame that never ends
SpecSizing ==
    /\ InitSizing
    /\ [][SizingNext]_vars

\* StartAndBlock has just been called
InitBlocking ==
    /\ BlockingInit
    /\ FramingIdle /\ SocketIdle /\ ServerIdle
    /\ LifecycleIdle /\ MeterIdle /\ AdmissionIdle /\ SizingIdle
    /\ ProtocolIdle
    /\ PrefixedIdle
    /\ VarintIdle
    /\ TeardownIdle
    /\ ChainIdle
    /\ CounterIdle
    /\ JobIdle
    /\ DetachIdle
    /\ ClosingIdle

\* StartAndBlock with NumServices services
SpecBlocking ==
    /\ InitBlocking
    /\ [][BlockingNext]_vars

\* a protocol and a buffer; no other part of the library takes part
InitProtocol ==
    /\ ProtocolInit
    /\ FramingIdle /\ SocketIdle /\ ServerIdle
    /\ LifecycleIdle /\ MeterIdle /\ AdmissionIdle /\ SizingIdle
    /\ BlockingInit
    /\ PrefixedIdle
    /\ VarintIdle
    /\ TeardownIdle
    /\ ChainIdle
    /\ CounterIdle
    /\ JobIdle
    /\ DetachIdle
    /\ ClosingIdle

\* ExtractPacket of a separator protocol applied to one buffer
SpecProtocol ==
    /\ InitProtocol
    /\ [][ProtocolNext]_vars

\* a length-prefixed protocol and a buffer; no other part takes part
InitPrefixed ==
    /\ PrefixedInit
    /\ FramingIdle /\ SocketIdle /\ ServerIdle
    /\ LifecycleIdle /\ MeterIdle /\ AdmissionIdle /\ SizingIdle
    /\ BlockingInit /\ ProtocolIdle
    /\ VarintIdle
    /\ TeardownIdle
    /\ ChainIdle
    /\ CounterIdle
    /\ JobIdle
    /\ DetachIdle
    /\ ClosingIdle

\* ExtractPacket of a length-prefixed protocol applied to one buffer
SpecPrefixed ==
    /\ InitPrefixed
    /\ [][PrefixedNext]_vars

\* an empty buffer; no other part takes part
InitVarint ==
    /\ VarintInit
    /\ FramingIdle /\ SocketIdle /\ ServerIdle
    /\ LifecycleIdle /\ MeterIdle /\ AdmissionIdle /\ SizingIdle
    /\ BlockingInit /\ ProtocolIdle /\ PrefixedIdle
    /\ TeardownIdle
    /\ ChainIdle
    /\ CounterIdle
    /\ JobIdle
    /\ DetachIdle
    /\ ClosingIdle

\* a number written as VarInt or VarLong and read back
SpecVarint ==
    /\ InitVarint
    /\ [][VarintNext]_vars

\* a connection about to be framed, its socket open
InitTeardown ==
    /\ FramingInit
    /\ Len(frames) <= MaxTeardownFrames
    /\ SocketIdle /\ ServerIdle /\ PartsIdle

\* the framing loop with Read errors and Close; the loop is a goroutine of
\* its own, so its break is taken once the socket is seen closed
SpecTeardown ==
    /\ InitTeardown
    /\ [][TeardownNext]_vars
    /\ WF_vars(TeardownBreak)
    /\ WF_vars(TeardownContinue)

\* an empty sockets list; no other part of the library takes part
InitChain ==
    /\ ChainInit
    /\ FramingIdle /\ SocketIdle /\ ServerIdle
    /\ LifecycleIdle /\ MeterIdle /\ AdmissionIdle /\ SizingIdle
    /\ BlockingInit /\ ProtocolIdle /\ PrefixedIdle /\ VarintIdle
    /\ TeardownIdle
    /\ CounterIdle
    /\ JobIdle
    /\ DetachIdle
    /\ ClosingIdle

\* New, Cleanup and Reset on a list of up to MaxNodes sockets
SpecChain ==
    /\ InitChain
    /\ [][ChainNext]_vars

\* the list with Reset taken statement by statement under its lock, and a
\* New that runs at the same time
SpecResetting ==
    /\ InitChain
    /\ [][ResettingNext]_vars

\* a job just made; no other part of the library takes part
InitJob ==
    /\ JobInit
    /\ FramingIdle /\ SocketIdle /\ ServerIdle
    /\ LifecycleIdle /\ MeterIdle /\ AdmissionIdle /\ SizingIdle
    /\ BlockingInit /\ ProtocolIdle /\ PrefixedIdle /\ VarintIdle
    /\ TeardownIdle /\ ChainIdle /\ CounterIdle
    /\ DetachIdle
    /\ ClosingIdle

\* Start() and Stop() of a job against its goroutines
SpecJob ==
    /\ InitJob
    /\ [][JobNext]_vars

\* a Socket in use, no SocketRef yet; no other part of the library takes part
InitDetach ==
    /\ DetachInit
    /\ FramingIdle /\ SocketIdle /\ ServerIdle
    /\ LifecycleIdle /\ MeterIdle /\ AdmissionIdle /\ SizingIdle
    /\ BlockingInit /\ ProtocolIdle /\ PrefixedIdle /\ VarintIdle
    /\ TeardownIdle /\ ChainIdle /\ CounterIdle /\ JobIdle
    /\ ClosingIdle

\* several SocketRefs of one Socket and its recycle()
SpecDetach ==
    /\ InitDetach
    /\ [][DetachNext]_vars

\* a Socket in use without close handlers; no other part of the library
\* takes part
InitClosing ==
    /\ ClosingInit
    /\ FramingIdle /\ SocketIdle /\ ServerIdle
    /\ LifecycleIdle /\ MeterIdle /\ AdmissionIdle /\ SizingIdle
    /\ BlockingInit /\ ProtocolIdle /\ PrefixedIdle /\ VarintIdle
    /\ TeardownIdle /\ ChainIdle /\ CounterIdle /\ JobIdle /\ DetachIdle

\* Close() of a Socket whose close handlers use the Socket
SpecClosing ==
    /\ InitClosing
    /\ [][ClosingNext]_vars

\* a socket whose counters are zero; no other part of the library takes part
InitCounter ==
    /\ CounterInit
    /\ FramingIdle /\ SocketIdle /\ ServerIdle
    /\ LifecycleIdle /\ MeterIdle /\ AdmissionIdle /\ SizingIdle
    /\ BlockingInit /\ ProtocolIdle /\ PrefixedIdle /\ VarintIdle
    /\ TeardownIdle /\ ChainIdle
    /\ JobIdle
    /\ DetachIdle
    /\ ClosingIdle

\* Read and Write of the handlers against Update of the housekeeping job
SpecCounter ==
    /\ InitCounter
    /\ [][CounterNext]_vars


\* -------------------------------------------------------- framing claims
\* bytes a frame occupies on the wire
WireLen(payload) == Len(payload) + Len(Separator)

\* every frame of the stream is within max_packet_size
AllWithinMax == \A i \in 1..Len(frames) : WireLen(frames[i]) <= cfg.MaxPacketSize

\* the frames of the stream that are within max_packet_size, in order
FramesWithinMax ==
    LET fits(payload) == WireLen(payload) <= cfg.MaxPacketSize
    IN  SelectSeq(frames, fits)

\* C1: framing correctness. When the loop has consumed a stream of
\* well-formed frames, whatever the chunking (here: chunkings that never
\* spill and never trip the size cap, so fragments are only ever kept in
\* place in the read buffer), the handler has received exactly the frames
\* of the stream, in order.
C1_FramingCorrectness ==
    (fpc = "done" /\ AllWithinMax /\ path \subseteq {"keep"}) => delivered = frames

\* C2: max-packet enforcement. When the stream holds a frame larger than
\* MaxPacketSize, the handler receives exactly the frames that are within
\* MaxPacketSize, in order, whatever the chunking.
C2_MaxPacketEnforcement ==
    (fpc = "done" /\ ~AllWithinMax) => delivered = FramesWithinMax

\* C3: spill correctness. When a fragment was moved to the receive buffer
\* during the run (and no fragment was kept in place straight from the read
\* buffer, and the size cap never tripped), the handler has still received
\* exactly the frames of the stream, in order.
C3_SpillCorrectness ==
    (fpc = "done" /\ AllWithinMax /\ "spill" \in path
        /\ "keep" \notin path /\ "drop" \notin path) => delivered = frames

\* ------------------------------------------------ list and server claims
\* C4: orderly shutdown. When Stop() returns on a running server whose
\* sockets list held N >= 1 sockets, every one of the N connections is closed,
\* the recycle handlers of every one of them have run and the list is empty.
C4_OrderlyShutdown ==
    (last.op = "Reset" /\ last.n >= 1) =>
        /\ last.open = {}
        /\ last.unrecycled = {}
        /\ last.len = 0

\* C5: max-clients. With maxSize = K >= 0 the size of the list never exceeds
\* K, and a New(conn) called while size = K closes conn, returns nil, puts
\* the reset Socket object back into the pool and leaves head, tail and size
\* as they were.
C5_MaxClients ==
    /\ maxSize >= 0 => size <= maxSize
    /\ (last.op = "New" /\ last.full) =>
        /\ last.socket = 0
        /\ last.closed
        /\ last.pooled
        /\ last.same
        /\ size = maxSize

\* C5 witness: a list of capacity K >= 1 is full and New has just turned a
\* connection away
C5_Witness ==
    /\ last.op = "New"
    /\ last.full
    /\ maxSize >= 1
    /\ size = maxSize
    /\ conn[last.conn] = "closed"

\* C6: a Socket stays valid for the whole execution of its handler: while the
\* goroutine a Socket was dispatched to is running the handler or still has
\* its deferred recycle() to run, the Socket object belongs to the
\* connection of that goroutine and is not in the pool.
C6_SocketValidInHandler ==
    \A c \in Conns :
        task[c].pc \in {"run", "recycle"} =>
            /\ sock[task[c].socket].conn = c
            /\ task[c].socket \notin pool

\* C7: socket reference safety. An operation through a SocketRef made for a
\* Socket that has been recycled since returns io.EOF and does not touch the
\* Socket object; before the recycle it is forwarded to that Socket.
C7_SocketRefSafety ==
    last.op = "Ref" =>
        IF last.stale
        THEN last.err = "io.EOF" /\ last.touched = 0
        ELSE last.touched = last.obj

\* C7 witness: a SetReadDeadline through the SocketRef of a connection whose
\* Socket was closed and recycled has returned io.EOF
C7_Witness ==
    /\ last.op = "Ref"
    /\ last.call = "SetReadDeadline"
    /\ last.stale
    /\ last.err = "io.EOF"
    /\ last.ref \in recycled
    /\ conn[last.ref] = "closed"

\* C10: return value of Start. When Start() has returned, it returned the
\* error e of the Abort(e) that was called on the running server, and nil
\* when Abort was not called between the call of Start() and its return.
C10_StartReturnValue ==
    srv.pc = "returned" =>
        /\ hist.running # "nil" => srv.result = hist.running
        /\ ~hist.called => srv.result = "nil"

\* --------------------------------------------------------- socket claims
\* C8: close idempotence. However many Close() calls are made on the socket,
\* one after another or concurrently and with any reasons, conn.Close() is
\* called once, the close handlers are invoked in reverse order of
\* registration, none twice, every handler registered when the winning call
\* was made is invoked, and all get the reason of the call that won closeOnce
\* (CloseReasonServer when it gave none).
C8_CloseIdempotence ==
    /\ sConnCloses <= 1
    /\ sCloseOnce # "fresh" => sConnCloses = 1
    /\ sCloseOnce = "fresh" => sCloseLog = <<>>
    /\ \A k \in 1..Len(sCloseLog) :
        /\ sCloseLog[k].handler = sCloseLog[1].handler - k + 1
        /\ sCloseLog[k].reason =
                IF sHist.winnerReason = NoReason THEN CloseReasonServer
                ELSE sHist.winnerReason
    /\ sCloseOnce = "done" =>
        /\ Len(sCloseLog) >= sHist.registered
        /\ Len(sCloseLog) > 0 => sCloseLog[Len(sCloseLog)].handler = 1

\* C8 witness: a handler was registered, one Close has run it and returned,
\* and a concurrent Close that blocked in closeOnce is about to return
C8_Witness ==
    /\ sCloseOnce = "done"
    /\ Len(sCloseLog) = 1
    /\ sResult.op = "Close"
    /\ \E t \in Tasks : sTask[t].pc = "wait" /\ sTask[t].op = "Close"

\* the errors the claim calls broken-pipe class
BrokenPipeClass ==
    {ErrEOF, ErrConnReset, ErrNetClosed, ErrPipe, ErrUnexpectedEOF, ErrClosedPipe}

\* C9: a Read / Write whose wrapped reader / writer failed with a
\* broken-pipe-class error returns io.EOF and leaves the socket closed, and
\* when that call is the one that closed it the close handlers got
\* CloseReasonClient; with any other error the call returns the error
\* unchanged, and such an error never closes the socket.
C9_BrokenPipeCloses ==
    /\ (sResult.op \in {"Read", "Write"} /\ sResult.raw # NoError) =>
        IF sResult.raw \in BrokenPipeClass
        THEN sResult.err = ErrEOF /\ sCloseOnce = "done" /\ sConnCloses = 1
        ELSE sResult.err = sResult.raw
    /\ sHist.winnerOp \in {"Read", "Write"} =>
        /\ sFault \in BrokenPipeClass
        /\ \A k \in 1..Len(sCloseLog) : sCloseLog[k].reason = CloseReasonClient

\* C9 witness: a Read that got "connection reset by peer" has returned io.EOF
\* after running a registered close handler with CloseReasonClient
C9_Witness ==
    /\ sResult = [op |-> "Read", raw |-> ErrConnReset, err |-> ErrEOF]
    /\ sHist.winnerOp = "Read"
    /\ Len(sCloseLog) >= 1
    /\ sCloseLog[1].reason = CloseReasonClient

\* ------------------------------------------------------- lifecycle claims
\* C11: configuration errors at Start. When Start() returns the error of a
\* missing listener, a missing forking strategy or a failed Listen(), it has
\* not started housekeeping, not called OnStart or the start handler and not
\* set running, and it has released the running lock, so that a later
\* ForkingStrategy(), Listener(), Stop() or Start() call does not block.
C11_ConfigErrors ==
    \A t \in Tasks :
        LET c == lifecycle.call[t]
        IN  (c.op = "Start" /\ c.pc = "returned" /\ c.result \in StartErrors) =>
                /\ c.did = {}
                /\ lifecycle.runningMutex # t

\* ------------------------------------------------ forking strategy claims
\* the goroutines between their increment and their decrement
HandlersCounted == {c \in Conns : task[c].pc \in {"run", "recycle"}}

\* C12: default forking strategy. The counter equals the number of handler
\* goroutines between their increment and their decrement, so it is 0 when
\* all handlers are done; when a goroutine has ended, after a return or a
\* panic of its handler, its connection is closed and its Socket was marked
\* recyclable, and a panic was passed to the panic handler.
C12_GoroutinePerConnection ==
    /\ goroutines = Cardinality(HandlersCounted)
    /\ \A c \in Conns :
        task[c].pc \in {"done", "panic"} =>
            /\ conn[c] = "closed"
            /\ c \in recycled
            /\ task[c].panicked => task[c].reported

\* ---------------------------------------------------------- metrics claims
\* C13: metrics aggregation. Once updateMetrics has run, TotalRead and
\* TotalWritten are the bytes that had crossed the sockets' streams when that
\* tick began, whatever the sockets did since and whether or not Cleanup
\* swept them, and ReadLastSecond and WrittenLastSecond are the bytes that
\* crossed between the last two ticks divided by the tick interval.
C13_MetricsAggregation ==
    meter.ticks >= 1 =>
        /\ meter.metrics.TotalRead = meter.atTick.read
        /\ meter.metrics.TotalWritten = meter.atTick.written
        /\ meter.metrics.ReadLastSecond =
              (meter.atTick.read - meter.atTickBefore.read) \div meter.interval
        /\ meter.metrics.WrittenLastSecond =
              (meter.atTick.written - meter.atTickBefore.written)
                  \div meter.interval

\* ------------------------------------------------------------ config claims
\* C14: max_clients defaults to -1. A server created with a ServerConfig that
\* does not set MaxClients uses maxSize = -1 and admits every connection its
\* accept loop hands to sockets.New.
C14_MaxClientsDefault ==
    (admission.config.literal /\ "MaxClients" \notin admission.config.sets) =>
        /\ admission.maxSize = Unlimited
        /\ admission.admitted = admission.news

\* C15: max_packet_size = 0 disables the size cap. A framing loop configured
\* with MaxPacketSize = 0 never discards buffered input for size, whatever
\* the amount of bytes in flight.
C15_ZeroDisablesCap ==
    (sizing.provided.literal /\ sizing.provided.MaxPacketSize = 0) =>
        ~sizing.dropped

\* ----------------------------------------------------- StartAndBlock claims
\* C16: StartAndBlock returns as soon as a service's Start() fails. Once the
\* goroutine of a service whose Start() returned an error or panicked is done
\* with it, the calling thread has left blockThread, and unless a signal came
\* first StartAndBlock returns the error of a failed service.
C16_StartAndBlockReturns ==
    \A i \in Services :
        blocking.service[i].pc \in {"sent", "dropped"} =>
            /\ blocking.main \in {"stopping", "returned"}
            /\ ~blocking.signalled =>
                  \E j \in Services : blocking.result = ErrorOf(j)

\* ------------------------------------------------------- accept loop claims
\* C17: accept loop error policy. A broken-pipe-class error from Accept()
\* ends the accept loop; after any other Accept error the loop goes on to
\* call Accept again, having called the accept-error handler once if one is
\* set; every accepted connection is passed to sockets.New once and, if the
\* list admitted it, to OnAccept once.
C17_AcceptLoopPolicy ==
    [][\A t \in Tasks :
        LET c == lifecycle.call[t]
            d == lifecycle'.call[t]
            a == lifecycle.accepts
            b == lifecycle'.accepts
        IN  /\ (c.pc = "error" /\ d.pc # "error") =>
                IF c.lastErr \in BrokenPipeClass
                THEN d.pc = "returned" /\ b = a
                ELSE /\ d.pc = "accept"
                     /\ b = [a EXCEPT !.handled =
                                IF lifecycle.acceptErrorHandler THEN @ + 1 ELSE @]
            /\ (c.pc = "handle" /\ d.pc # "handle") =>
                /\ d.pc = "accept"
                /\ b.news = a.news + 1
                /\ b.handled = a.handled
                /\ b.onAccepts - a.onAccepts = lifecycle'.size - lifecycle.size
                /\ b.onAccepts - a.onAccepts =
                      IF lifecycle.maxSize >= 0
                            /\ lifecycle.size >= lifecycle.maxSize
                      THEN 0 ELSE 1
            /\ (c.pc = "accept" /\ d.pc # "accept") =>
                /\ d.pc \in {"handle", "error"}
                /\ <<b.news, b.onAccepts, b.handled>> = <<0, 0, 0>>
    ]_vars

\* C17 witness: an accept loop that had a connection admitted is calling
\* Accept again after an error outside the broken-pipe class, which the
\* accept-error handler got
C17_Witness ==
    /\ lifecycle.acceptErrorHandler
    /\ lifecycle.accepts.handled = 1
    /\ lifecycle.accepts.news = 0
    /\ lifecycle.size = 1
    /\ \E t \in Tasks :
        /\ lifecycle.call[t].pc = "accept"
        /\ lifecycle.call[t].lastErr \in AcceptErrors \ BrokenPipeClass

\* ------------------------------------------------------------ Cleanup claims
\* C18: a socket that has been closed with Close() is removed from the
\* sockets list by the next Cleanup(): when Cleanup() returns, the length of
\* the list is the length it found less the number of listed sockets that
\* had been closed; with no closed socket the length stays as it was.
C18_CleanupRemovesClosed ==
    last.op = "Cleanup" => last.len = last.n - last.closed

\* --------------------------------------------------------------- pool claims
\* C19: over any sequence of connects, disconnects and cleanups, the number
\* of distinct Socket objects the pool has constructed never exceeds the
\* peak number of clients that were connected at the same time, as long as
\* the pool has handed out an object it held whenever it held one.
C19_PoolReuse == ~pooling.dropped => allocs <= pooling.peak

\* ----------------------------------------------------------- protocol claims
\* C20: for a non-empty separator S and every buffer buf, ExtractPacket(buf)
\* returns (buf[..pos], buf[pos+|S|..], true) where pos is the first
\* occurrence of S in buf, and returns (the empty packet, buf as the rest,
\* false) when S does not occur in buf.
C20_SeparatorFraming ==
    protocol.pc = "returned" =>
        LET S == protocol.separator
            buf == protocol.buffer
            occurs == {i \in 0..(Len(buf) - Len(S)) :
                          \A k \in 1..Len(S) : buf[i + k] = S[k]}
        IN  /\ \A pos \in occurs :
                (\A i \in occurs : pos <= i) =>
                    /\ protocol.packet = SubSeq(buf, 1, pos)
                    /\ protocol.rest = SubSeq(buf, pos + Len(S) + 1, Len(buf))
                    /\ protocol.extracted
            /\ occurs = {} =>
                    /\ protocol.packet = <<>>
                    /\ protocol.rest = buf
                    /\ ~protocol.extracted

\* C20, amended: for a non-empty separator S and every buffer buf,
\* ExtractPacket(buf) returns (buf[..pos], buf[pos+|S|..], true) where pos is
\* the first occurrence of S in buf, and returns (buf as the packet, an empty
\* rest, false) when S does not occur in buf.
C20_SeparatorFramingAmended ==
    protocol.pc = "returned" =>
        LET S == protocol.separator
            buf == protocol.buffer
            occurs == {i \in 0..(Len(buf) - Len(S)) :
                          \A k \in 1..Len(S) : buf[i + k] = S[k]}
        IN  /\ \A pos \in occurs :
                (\A i \in occurs : pos <= i) =>
                    /\ protocol.packet = SubSeq(buf, 1, pos)
                    /\ protocol.rest = SubSeq(buf, pos + Len(S) + 1, Len(buf))
                    /\ protocol.extracted
            /\ occurs = {} =>
                    /\ protocol.packet = buf
                    /\ protocol.rest = <<>>
                    /\ ~protocol.extracted

\* C20 witness: ExtractPacket has returned for a buffer that holds bytes of
\* a two-byte separator but not the separator
C20_Witness ==
    /\ protocol.pc = "returned"
    /\ Len(protocol.separator) = 2
    /\ Len(protocol.buffer) >= 2
    /\ \E i \in 1..Len(protocol.buffer) :
            protocol.buffer[i] = protocol.separator[1]
    /\ \A i \in 1..(Len(protocol.buffer) - 1) :
            <<protocol.buffer[i], protocol.buffer[i + 1]>> # protocol.separator
    /\ ~protocol.extracted

\* the length prefix at the start of buf, read as the wire format defines
\* it: whether it is completely present, its byte count P and the unsigned
\* length N it encodes, as the set of the bits of N that are 1
DecodedPrefix(prefixType, buf) ==
    LET width == CASE prefixType \in {"PrefixInt16_BE", "PrefixInt16_LE"} -> 2
                   [] prefixType \in {"PrefixInt32_BE", "PrefixInt32_LE"} -> 4
                   [] prefixType \in {"PrefixInt64_BE", "PrefixInt64_LE"} -> 8
                   [] prefixType = "PrefixVarInt" -> 5
                   [] OTHER -> 10
        ends == {k \in 1..Min(width, Len(buf)) :
                    /\ buf[k] < 128
                    /\ \A j \in 1..(k - 1) : buf[j] >= 128}
        bitsOf(b) == {i \in 0..7 : (b \div (2 ^ i)) % 2 = 1}
    IN  IF prefixType \in {"PrefixVarInt", "PrefixVarLong"}
        THEN IF ends = {} THEN [complete |-> FALSE, P |-> 0, N |-> {}]
             ELSE LET k == CHOOSE x \in ends : TRUE
                  IN  [complete |-> TRUE, P |-> k,
                       N |-> UNION {{i + 7 * (j - 1) : i \in bitsOf(buf[j] % 128)}
                                    : j \in 1..k}]
        ELSE IF Len(buf) < width THEN [complete |-> FALSE, P |-> 0, N |-> {}]
        ELSE [complete |-> TRUE, P |-> width,
              N |-> UNION {{i + 8 * (IF prefixType \in BigEndianTypes
                                     THEN width - j ELSE j - 1)
                            : i \in bitsOf(buf[j])} : j \in 1..width}]

\* C21: for every prefix kind and every buffer buf, with P the prefix byte
\* count and N the decoded length, ExtractPacket(buf) returns
\* (buf[P..P+N], buf[P+N..], true) iff the prefix is completely present and
\* |buf| - P >= N; otherwise it returns (empty, buf, false), also when buf
\* is shorter than a fixed-width prefix or ends inside a VarInt or VarLong.
C21_LengthPrefixedFraming ==
    prefixed.pc # "given" =>
        LET buf == prefixed.buffer
            d == DecodedPrefix(prefixed.prefixType, buf)
            fits == /\ d.complete
                    /\ \A i \in d.N : i < 31
                    /\ Len(buf) - d.P >= ValueOf(d.N)
        IN  /\ prefixed.pc = "returned"
            /\ prefixed.extracted = fits
            /\ fits =>
                /\ prefixed.packet =
                      SubSeq(buf, d.P + 1, d.P + ValueOf(d.N))
                /\ prefixed.rest =
                      SubSeq(buf, d.P + ValueOf(d.N) + 1, Len(buf))
            /\ ~fits =>
                /\ prefixed.packet = <<>>
                /\ prefixed.rest = buf

\* ------------------------------------------------------------ VarInt claims
\* C22: for every n with 0 <= n < 2^31, ReadVarInt applied to the bytes
\* WriteVarInt(n) produced returns n without error and consumes exactly
\* those bytes, which are at most 5; likewise for ReadVarLong and
\* WriteVarLong with 0 <= n < 2^63 and at most 10 bytes.
C22_VarIntRoundTrip ==
    /\ varint.pc # "new" =>
            Len(varint.written) <= (IF varint.kind = "VarInt" THEN 5 ELSE 10)
    /\ varint.pc = "read" =>
        /\ varint.err = "nil"
        /\ varint.result = varint.value
        /\ Len(varint.buffer) = varint.more
        /\ varint.written \o varint.buffer \in
                {varint.written, varint.written \o <<1>>,
                 varint.written \o <<255>>}

\* C22 witness: a VarLong with bit 62 set, written in nine bytes and
\* followed by another byte, has been read back
C22_Witness ==
    /\ varint.pc = "read"
    /\ varint.kind = "VarLong"
    /\ 62 \in varint.value
    /\ Len(varint.written) = 9
    /\ varint.buffer = <<255>>
    /\ varint.result = varint.value

\* ----------------------------------------------------- framing loop claims
\* the bytes socket.Read has handed to the loop so far
Received ==
    LET wire == Flatten([i \in 1..Len(frames) |-> WireFrame(frames[i])])
    IN  SubSeq(wire, 1, Len(wire) - Len(stream))

\* the bytes of the packets handed to the packet handler, separators included
Handled == Flatten([i \in 1..Len(delivered) |-> WireFrame(delivered[i])])

\* C23: every time the loop issues socket.Read, the bytes received so far
\* and not yet delivered or discarded are readBuffer[leftOffset..rightOffset]
\* when the spill buffer is empty and spill ++ readBuffer[leftOffset..
\* rightOffset] when it is not, after any sequence of reads, extractions,
\* fragments kept in place and spills (nothing was discarded for its size).
C23_BufferInvariant ==
    (fpc = "read" /\ "drop" \notin path) =>
        Received =
            Handled \o receiveBuffer
                \o SubSeq(readBuffer, leftOffset + 1, rightOffset)

\* C24: every socket.Read of the framing loop is issued with
\* 0 <= leftOffset <= rightOffset and at least MinReadSpace free bytes at the
\* tail of the read buffer (len(readBuffer) - rightOffset >= MinReadSpace),
\* the merged configuration having MinReadSpace <= ReadBufferSize
C24_ReadSpace ==
    (fpc = "read" /\ cfg.MinReadSpace <= cfg.ReadBufferSize) =>
        /\ 0 <= leftOffset
        /\ leftOffset <= rightOffset
        /\ Len(readBuffer) - rightOffset >= cfg.MinReadSpace

\* the loop is about to read with a fragment kept in place after a spill and
\* exactly MinReadSpace bytes left at the tail
C24_Witness ==
    /\ fpc = "read"
    /\ {"keep", "spill"} \subseteq path
    /\ leftOffset > 0
    /\ leftOffset < rightOffset
    /\ Len(readBuffer) - rightOffset = cfg.MinReadSpace

\* whether a can be obtained from b by leaving elements out
RECURSIVE IsSubsequence(_, _)
IsSubsequence(a, b) ==
    IF a = <<>> THEN TRUE
    ELSE IF b = <<>> THEN FALSE
    ELSE IF Head(a) = Head(b) THEN IsSubsequence(Tail(a), Tail(b))
    ELSE IsSubsequence(a, Tail(b))

\* C25: the packet handler only ever receives real frames. In every run of
\* the framing loop the packets passed to the handler are payloads of
\* complete frames of the input stream, each frame passed at most once and
\* in stream order: no bytes of a frame dropped for its size, no stale bytes
\* of the read buffer, also after a drop and after a spill.
C25_OnlyRealFrames == IsSubsequence(delivered, frames)

\* C26: framing loop termination and cleanup. When socket.Read has returned
\* an error and the socket is closed (peer EOF, reset or a Close from
\* outside), the loop terminates, having put the read buffer and, if it holds
\* one, the reset spill buffer into their pools once; when the socket is not
\* closed, the loop reads again with leftOffset, rightOffset and the spill
\* buffer as they were and without a call of the packet handler.
C26_TerminationAndCleanup ==
    /\ [][(fpc = "error" /\ fpc' # "error") =>
            IF teardown.closed
            THEN /\ fpc' = "done"
                 /\ teardown'.readBufferPuts = 1
                 /\ teardown'.receiveBufferPuts = (IF receiveHeld THEN 1 ELSE 0)
                 /\ receiveHeld => receiveBuffer' = <<>>
                 /\ delivered' = delivered
            ELSE /\ fpc' = "read"
                 /\ UNCHANGED <<leftOffset, rightOffset, receiveBuffer,
                                receiveHeld, delivered>>
                 /\ teardown'.readBufferPuts = 0
                 /\ teardown'.receiveBufferPuts = 0]_vars
    /\ (fpc = "error" /\ teardown.closed) ~> (fpc = "done")
    /\ (fpc = "error") ~> (fpc \in {"read", "done"})

\* C26 witness: the loop has ended on a socket the peer closed, with a
\* fragment in the spill buffer given back reset, after an earlier Read had
\* failed without closing the socket and packets had been handled
C26_Witness ==
    /\ fpc = "done"
    /\ teardown.continued
    /\ teardown.err = ErrEOF.name
    /\ "spill" \in path
    /\ receiveHeld
    /\ teardown.receiveBufferPuts = 1
    /\ Len(delivered) > 0

\* ------------------------------------------------------------- list claims
\* the sockets reachable from head through next
Reachable == Walk(chain.w, chain.w.head, MaxNodes + 1)

\* C27: sockets list structure. After any sequence of New, Cleanup (whatever
\* sockets are recyclable: head, tail, middle nodes, several or all of them)
\* and Reset, size is the number of nodes reachable from head through next,
\* those nodes are the admitted and not yet removed sockets in admission
\* order, and when the list is not empty tail is the last of them and its
\* next is nil.
C27_ListStructure ==
    /\ chain.w.size = Len(Reachable)
    /\ Reachable = chain.members
    /\ Len(Reachable) > 0 =>
        /\ chain.w.tail = Reachable[Len(Reachable)]
        /\ chain.w.sock[chain.w.tail].next = 0

\* C27 witness: a Cleanup that found three sockets has removed the middle
\* one and left the other two
C27_Witness ==
    /\ chain.last.op = "Cleanup"
    /\ Len(chain.last.found) = 3
    /\ chain.last.flagged = {chain.last.found[2]}
    /\ Len(Reachable) = 2

C29_PoolDiscipline ==
    /\ \A i \in 1..Len(Reachable) : Reachable[i] \notin chain.w.pool
    /\ ~chain.w.pooling.twice

\* the connections whose goroutine has not finished: the handler has not
\* started, is running, or has returned and recycle() is still to come
Live == {d \in Conns : task[d].pc \in {"start", "run", "recycle"}}

\* C30: admission counts only live connections. When New() has turned a
\* connection away, maxSize connections were live; a socket whose handler
\* has returned and which is closed and recyclable does not count, swept by
\* Cleanup or not.
C30_AdmissionCountsLive ==
    (last.op = "New" /\ last.socket = 0) =>
        /\ maxSize >= 0
        /\ Cardinality(Live) >= maxSize

\* ------------------------------------------------ length-prefixed claims
\* C40: ExtractPacket of the length-prefixed protocol never faults. For every
\* prefix kind and every buffer, also with an Int64 or VarLong prefix whose
\* value has the top bit set and with a VarInt prefix of five bytes, it
\* returns without an out-of-range slice, and a packet it returns has a
\* length between 0 and |buf| - P, P being the bytes of the prefix.
C40_ExtractNeverFaults ==
    /\ prefixed.pc # "panicked"
    /\ (prefixed.pc = "returned" /\ prefixed.extracted) =>
            Len(prefixed.packet) <=
                Len(prefixed.buffer)
                    - DecodedPrefix(prefixed.prefixType, prefixed.buffer).P


\* -------------------------------------------------------- stopping claims
\* C31: once Stop() has run on a running server and returned, and until the
\* server is started again, the listener is closed, the housekeeping ticker
\* is stopped and Stop() has called Close, OnStop and the stop handler; a
\* Stop() that found the server not running has called nothing.
C31_StopIdempotent ==
    \A t \in Tasks :
        LET c == lifecycle.call[t]
        IN  (c.op = "Stop" /\ c.pc = "returned") =>
                \/ c.did = {}
                \/ /\ c.did = {"Close", "OnStop", "stopHandler"}
                   /\ ~lifecycle.isRunning =>
                        /\ lifecycle.bound = "closed"
                        /\ ~lifecycle.ticker

\* C32: once a Stop() that stopped the server and every Start() have
\* returned, the sockets list is empty: no connection accepted by the loop is
\* still registered.
C32_NoConnectionSurvivesStop ==
    (/\ ~lifecycle.isRunning
     /\ \E t \in Tasks : /\ lifecycle.call[t].op = "Stop"
                         /\ lifecycle.call[t].pc = "returned"
                         /\ lifecycle.call[t].did # {}
     /\ \A t \in Tasks : lifecycle.call[t].op = "Start" =>
                            lifecycle.call[t].pc = "returned")
        => lifecycle.size = 0

C34_PanicGuardDoesNotBlock ==
    \A i \in Goroutines : job.g[i].pc = "stopping" => job.m # i

\* C35: after Stop() has returned and until the job is started again, the
\* tick function is not running and the mutex is not held by a goroutine
\* that has left the loop, so a later Start() or Stop() does not block.
C35_StoppedJobIsQuiet ==
    job.stopped =>
        /\ \A i \in Goroutines : job.g[i].pc # "fn"
        /\ job.m # 0 => job.g[job.m].pc # "exited"

\* C36: Stop() does not fault, also when it is called before the goroutine
\* of Start() has stored its ticker.
C36_StopIsSafe ==
    job.caller.pc # "panicked"

\* ---------------------------------------------------- SocketRef claims
\* C37: whenever Cleanup() or Reset() resets a Socket and puts it into the
\* pool, no SocketRef holds a pointer to that Socket any more.
C37_DetachPrecedesReclamation ==
    [][\A s \in pool' \ pool :
          \A r \in Conns : ref'[r].made => ref'[r].s # s]_vars

\* C38: after recycle() every SocketRef made for the Socket is detached, and
\* a Read, Write or Close through any of them returns io.EOF.
C38_EveryRefDetached ==
    /\ detach.recyclable => detach.attached = {}
    /\ detach.result.recycled => detach.result.err = "io.EOF"

\* --------------------------------------------------- re-entrant Close claims
\* C39: Close() returns also when a close handler calls Close(), OnClose(),
\* or a Read() or Write() that fails with a broken pipe, on the same Socket:
\* the goroutine inside Close() never waits for something only it can
\* release.
C39_CloseAlwaysReturns ==
    closing.pc # "blocked"

====
